---- MODULE Spec2Model ----
(***************************************************************************)
(* Model of ds1821_program.c, the DS1821 GPIO bit-bang utility.            *)
(*                                                                         *)
(* The C functions are translated to straight-line programs of a small     *)
(* instruction set (one instruction per pigpio call, assignment, branch,   *)
(* call or return) and run by an interpreter whose state is the call       *)
(* stack, the C variables, the GPIO pins and the bus activity of the       *)
(* current call.  Three specifications share the interpreter:              *)
(*   SpecWire    one bit-level or byte-level transceiver operation, one    *)
(*               step per pigpio call, with elapsed microseconds;          *)
(*   Spec        the whole program, main() down to the device commands,    *)
(*               with ow_reset / ow_write_byte / ow_read_byte as single    *)
(*               steps;                                                    *)
(*   SpecSearch  ow_search_rom against a simulated bus of devices.         *)
(***************************************************************************)
EXTENDS Integers, Sequences, FiniteSets, TLC

VARIABLES
    stack,      \* call stack, innermost frame first: [fn, k] with k the rest of fn's body
    loc,        \* the C variables (globals and the locals of the running functions)
    rv,         \* value returned by the last call that returned
    pinMode,    \* per GPIO: -1 never set, PI_INPUT, PI_OUTPUT
    pinPull,    \* per GPIO: -1 never set, PI_PUD_OFF, PI_PUD_UP
    pinLevel,   \* per GPIO: level last written (-1 never written)
    clock,      \* microseconds waited since the current traced call began
    events,     \* bus and GPIO activity since the current traced call began
    phase,      \* main(): position outside the interpreter
    argv,       \* command line after argv[0]
    env,        \* environment of the process: [root, init_ok]
    dev,        \* the device's registers as a persistent store
    exit_code,  \* process exit code (-1 while running)
    hist,       \* history of the current action: failed resets, later bus activity
    srch        \* ow_search_rom and its simulated bus (SpecSearch)

vars == <<stack, loc, rv, pinMode, pinPull, pinLevel, clock, events, phase,
          argv, env, dev, exit_code, hist, srch>>

-----------------------------------------------------------------------------
(* Constants of the program.                                               *)

DEFAULT_GPIO_PIN == 17
DEFAULT_POWER_PIN == -1

DS1821_CMD_START_CONVERT == 238
DS1821_CMD_READ_TEMP == 170
DS1821_CMD_READ_COUNTER == 160
DS1821_CMD_READ_SLOPE == 169
DS1821_CMD_READ_TH == 161
DS1821_CMD_READ_TL == 162
DS1821_CMD_WRITE_TH == 1
DS1821_CMD_WRITE_TL == 2
DS1821_CMD_READ_STATUS == 172
DS1821_CMD_WRITE_STATUS == 12

DS1821_STATUS_DONE == 128
DS1821_STATUS_THF == 64
DS1821_STATUS_TLF == 32
DS1821_STATUS_NVB == 16
DS1821_STATUS_1SHOT == 1

OW_CMD_READ_ROM == 51
OW_CMD_SKIP_ROM == 204
OW_CMD_SEARCH_ROM == 240

OW_RESET_LOW_US == 480
OW_RESET_RELEASE_US == 70
OW_RESET_PRESENCE_US == 410
OW_WRITE1_LOW_US == 6
OW_WRITE1_RELEASE_US == 64
OW_WRITE0_LOW_US == 60
OW_WRITE0_RELEASE_US == 10
OW_READ_LOW_US == 6
OW_READ_SAMPLE_US == 9
OW_READ_SLOT_US == 55
OW_RECOVERY_US == 2

\* pigpio's mode and pull codes, as the program passes them
PI_INPUT == 0
PI_OUTPUT == 1
PI_PUD_OFF == 0
PI_PUD_UP == 2

\* GPIO numbers the command lines of the model can name
Pins == {4, 17, 27}

-----------------------------------------------------------------------------
(* Instructions.                                                           *)

I(op, a, b) == [op |-> op, a |-> a, b |-> b]

SetMode(pinvar, m)   == I("gpioSetMode", pinvar, m)
SetPull(pinvar, p)   == I("gpioSetPullUpDown", pinvar, p)
Write(pinvar, l)     == I("gpioWrite", pinvar, l)
Read(pinvar, dst)    == I("gpioRead", pinvar, dst)
Delay(us)            == I("gpioDelay", us, 0)
Usleep(us)           == I("usleep", us, 0)
Set(dst, n)          == I("set", dst, n)
SetV(dst, expr)      == I("setv", dst, expr)
If(cond, thn, els)   == I("if", cond, <<thn, els>>)
While(cond, body)    == I("while", cond, body)
Break                == I("break", 0, 0)
SetP(ptr, expr)      == I("setp", ptr, expr)
Call(fn, argexpr)    == I("call", fn, argexpr)
CallN(fn, lit)       == I("calln", fn, lit)
Return(n)            == I("return", n, 0)
ReturnV(expr)        == I("returnv", expr, 0)

-----------------------------------------------------------------------------
(* Low-level 1-Wire bit-bang.                                              *)

ow_release ==
    << SetMode("gpio_pin", PI_INPUT),
       SetPull("gpio_pin", PI_PUD_UP) >>

ow_drive_low ==
    << SetMode("gpio_pin", PI_OUTPUT),
       Write("gpio_pin", 0) >>

ow_read_bit_raw(dst) ==
    << Read("gpio_pin", dst) >>

\* ow_reset with the sample taken as the result, not inverted
ow_reset_not_inverted ==
       ow_drive_low
    \o << Delay(OW_RESET_LOW_US) >>
    \o ow_release
    \o << Delay(OW_RESET_RELEASE_US) >>
    \o ow_read_bit_raw("raw")
    \o << SetV("presence", "raw"),
          Delay(OW_RESET_PRESENCE_US),
          ReturnV("presence") >>

ow_reset ==
       ow_drive_low
    \o << Delay(OW_RESET_LOW_US) >>
    \o ow_release
    \o << Delay(OW_RESET_RELEASE_US) >>
    \o ow_read_bit_raw("raw")
    \o << SetV("presence", "!raw"),
          Delay(OW_RESET_PRESENCE_US),
          ReturnV("presence") >>

\* ow_write_bit with the two release times exchanged
ow_write_bit_swapped_release ==
    << If("bit",
            ow_drive_low
         \o << Delay(OW_WRITE1_LOW_US) >>
         \o ow_release
         \o << Delay(OW_WRITE0_RELEASE_US) >>,
            ow_drive_low
         \o << Delay(OW_WRITE0_LOW_US) >>
         \o ow_release
         \o << Delay(OW_WRITE1_RELEASE_US) >>),
       Delay(OW_RECOVERY_US),
       Return(0) >>

ow_write_bit ==
    << If("bit",
            ow_drive_low
         \o << Delay(OW_WRITE1_LOW_US) >>
         \o ow_release
         \o << Delay(OW_WRITE1_RELEASE_US) >>,
            ow_drive_low
         \o << Delay(OW_WRITE0_LOW_US) >>
         \o ow_release
         \o << Delay(OW_WRITE0_RELEASE_US) >>),
       Delay(OW_RECOVERY_US),
       Return(0) >>

\* ow_read_bit sampling before the line is released
ow_read_bit_sample_early ==
       ow_drive_low
    \o << Delay(OW_READ_LOW_US) >>
    \o ow_read_bit_raw("rbit")
    \o ow_release
    \o << Delay(OW_READ_SAMPLE_US) >>
    \o << Delay(OW_READ_SLOT_US),
          Delay(OW_RECOVERY_US),
          ReturnV("rbit") >>

ow_read_bit ==
       ow_drive_low
    \o << Delay(OW_READ_LOW_US) >>
    \o ow_release
    \o << Delay(OW_READ_SAMPLE_US) >>
    \o ow_read_bit_raw("rbit")
    \o << Delay(OW_READ_SLOT_US),
          Delay(OW_RECOVERY_US),
          ReturnV("rbit") >>

\* ow_write_byte without the shift: it sends bit 0 eight times
ow_write_byte_unshifted ==
    << Set("i", 0),
       While("i<8",
          << Call("ow_write_bit", "byte&1"),
             SetV("i", "i+1") >>),
       Return(0) >>

ow_write_byte ==
    << Set("i", 0),
       While("i<8",
          << Call("ow_write_bit", "byte&1"),
             SetV("byte", "byte>>1"),
             SetV("i", "i+1") >>),
       Return(0) >>

ow_read_byte ==
    << Set("rbyte", 0),
       Set("i", 0),
       While("i<8",
          << Call("ow_read_bit", "none"),
             If("rv", << SetV("rbyte", "rbyte|1<<i") >>, <<>>),
             SetV("i", "i+1") >>),
       ReturnV("rbyte") >>

-----------------------------------------------------------------------------
(* DS1821 high-level operations (thermostat mode, no ROM step).            *)

ds1821_read_status_reg ==
    << Call("ow_reset", "none"),
       If("!rv", << Return(-1) >>, <<>>),
       CallN("ow_write_byte", DS1821_CMD_READ_STATUS),
       Call("ow_read_byte", "none"),
       SetP("status_p", "rv"),
       Return(0) >>

ds1821_write_status_reg ==
    << Call("ow_reset", "none"),
       If("!rv", << Return(-1) >>, <<>>),
       CallN("ow_write_byte", DS1821_CMD_WRITE_STATUS),
       Call("ow_write_byte", "status_v") >>
    \o ow_release
    \o << Usleep(200000),
          Return(0) >>

ds1821_write_status_skiprom ==
    << Call("ow_reset", "none"),
       If("!rv", << Return(-1) >>, <<>>),
       CallN("ow_write_byte", OW_CMD_SKIP_ROM),
       CallN("ow_write_byte", DS1821_CMD_WRITE_STATUS),
       Call("ow_write_byte", "status_v") >>
    \o ow_release
    \o << Usleep(200000),
          Return(0) >>

ds1821_read_status_skiprom ==
    << Call("ow_reset", "none"),
       If("!rv", << Return(-1) >>, <<>>),
       CallN("ow_write_byte", OW_CMD_SKIP_ROM),
       CallN("ow_write_byte", DS1821_CMD_READ_STATUS),
       Call("ow_read_byte", "none"),
       SetP("status_p", "rv"),
       Return(0) >>

ds1821_read_temperature ==
    << Call("ow_reset", "none"),
       If("!rv", << Return(-1) >>, <<>>),
       CallN("ow_write_byte", DS1821_CMD_READ_TEMP),
       Call("ow_read_byte", "none"),
       SetP("temp_p", "(int8_t)rv"),
       Return(0) >>

ds1821_read_counter ==
    << Call("ow_reset", "none"),
       If("!rv", << Return(-1) >>, <<>>),
       CallN("ow_write_byte", DS1821_CMD_READ_COUNTER),
       Call("ow_read_byte", "none"),
       SetP("count_remain_p", "rv"),
       Return(0) >>

\* ds1821_read_slope going on without looking at the reset's result
ds1821_read_slope_unchecked ==
    << Call("ow_reset", "none"),
       CallN("ow_write_byte", DS1821_CMD_READ_SLOPE),
       Call("ow_read_byte", "none"),
       SetP("count_per_c_p", "rv"),
       Return(0) >>

ds1821_read_slope ==
    << Call("ow_reset", "none"),
       If("!rv", << Return(-1) >>, <<>>),
       CallN("ow_write_byte", DS1821_CMD_READ_SLOPE),
       Call("ow_read_byte", "none"),
       SetP("count_per_c_p", "rv"),
       Return(0) >>

ds1821_start_convert ==
    << Call("ow_reset", "none"),
       If("!rv", << Return(-1) >>, <<>>),
       CallN("ow_write_byte", DS1821_CMD_START_CONVERT),
       Return(0) >>

ds1821_read_th ==
    << Call("ow_reset", "none"),
       If("!rv", << Return(-1) >>, <<>>),
       CallN("ow_write_byte", DS1821_CMD_READ_TH),
       Call("ow_read_byte", "none"),
       SetP("th_p", "(int8_t)rv"),
       Return(0) >>

ds1821_read_tl ==
    << Call("ow_reset", "none"),
       If("!rv", << Return(-1) >>, <<>>),
       CallN("ow_write_byte", DS1821_CMD_READ_TL),
       Call("ow_read_byte", "none"),
       SetP("tl_p", "(int8_t)rv"),
       Return(0) >>

\* ds1821_write_th returning as soon as the line is released
ds1821_write_th_no_wait ==
    << Call("ow_reset", "none"),
       If("!rv", << Return(-1) >>, <<>>),
       CallN("ow_write_byte", DS1821_CMD_WRITE_TH),
       Call("ow_write_byte", "(uint8_t)th_v") >>
    \o ow_release
    \o << Return(0) >>

ds1821_write_th ==
    << Call("ow_reset", "none"),
       If("!rv", << Return(-1) >>, <<>>),
       CallN("ow_write_byte", DS1821_CMD_WRITE_TH),
       Call("ow_write_byte", "(uint8_t)th_v") >>
    \o ow_release
    \o << Usleep(200000),
          Return(0) >>

ds1821_write_tl ==
    << Call("ow_reset", "none"),
       If("!rv", << Return(-1) >>, <<>>),
       CallN("ow_write_byte", DS1821_CMD_WRITE_TL),
       Call("ow_write_byte", "(uint8_t)tl_v") >>
    \o ow_release
    \o << Usleep(200000),
          Return(0) >>

-----------------------------------------------------------------------------
(* ROM layer, as the actions use it.                                       *)

\* ow_crc8 without the shift of the data byte
ow_crc8_unshifted ==
    << Set("crc", 0),
       Set("i", 0),
       While("i<len",
          << SetV("byte", "data[i]"),
             Set("j", 0),
             While("j<8",
                << SetV("mix", "(crc^byte)&1"),
                   SetV("crc", "crc>>1"),
                   If("mix", << SetV("crc", "crc^0x8C") >>, <<>>),
                   SetV("j", "j+1") >>),
             SetV("i", "i+1") >>),
       ReturnV("crc") >>

ow_crc8 ==
    << Set("crc", 0),
       Set("i", 0),
       While("i<len",
          << SetV("byte", "data[i]"),
             Set("j", 0),
             While("j<8",
                << SetV("mix", "(crc^byte)&1"),
                   SetV("crc", "crc>>1"),
                   If("mix", << SetV("crc", "crc^0x8C") >>, <<>>),
                   SetV("byte", "byte>>1"),
                   SetV("j", "j+1") >>),
             SetV("i", "i+1") >>),
       ReturnV("crc") >>

\* The validation of a code: the checksum of the first 7 bytes against the
\* 8th.  Here the 8th byte is filled in with that checksum and the checksum
\* is then taken over all 8 bytes.
crc8_selfcheck ==
    << CallN("ow_crc8", 7),
       SetV("crc7", "rv"),
       SetV("data", "data[7]=crc7"),
       CallN("ow_crc8", 8),
       SetV("crc8", "rv"),
       Return(0) >>

ow_read_rom ==
    << Call("ow_reset", "none"),
       If("!rv", << Return(-1) >>, <<>>),
       CallN("ow_write_byte", OW_CMD_READ_ROM),
       Set("ri", 0),
       While("ri<8",
          << Call("ow_read_byte", "none"),
             SetV("rom", "rom[ri]=rv"),
             SetV("ri", "ri+1") >>),
       Return(0) >>

\* ow_search_rom with the 64 bit positions of a pass as one step (SearchBits):
\* the pass either meets two 1 bits (done) or completes, with or without a
\* new discrepancy.  SpecSearch has the positions one by one.
Pow2(n) == IF n = 0 THEN 1 ELSE IF n = 1 THEN 2 ELSE IF n = 2 THEN 4
           ELSE IF n = 3 THEN 8 ELSE IF n = 4 THEN 16 ELSE IF n = 5 THEN 32
           ELSE IF n = 6 THEN 64 ELSE 128

BitOf(x, n) == (x \div Pow2(n)) % 2

\* The branch rule of one bit position (the if/else chain of the bit loop):
\* the direction written back ...
SearchDir_one_branch_first(id_bit, cmp_bit, bit_pos, last_discrepancy, rom) ==
    IF id_bit # cmp_bit THEN id_bit
    ELSE IF bit_pos = last_discrepancy THEN 0
    ELSE IF bit_pos > last_discrepancy THEN 1
    ELSE BitOf(rom[(bit_pos \div 8) + 1], bit_pos % 8)

SearchDir_replay_zero(id_bit, cmp_bit, bit_pos, last_discrepancy, rom) ==
    IF id_bit # cmp_bit THEN id_bit
    ELSE IF bit_pos = last_discrepancy THEN 1
    ELSE 0

SearchDir(id_bit, cmp_bit, bit_pos, last_discrepancy, rom) ==
    IF id_bit # cmp_bit THEN id_bit
    ELSE IF bit_pos = last_discrepancy THEN 1
    ELSE IF bit_pos > last_discrepancy THEN 0
    ELSE BitOf(rom[(bit_pos \div 8) + 1], bit_pos % 8)

\* ... and the discrepancy the pass remembers for the next one.
SearchNewDiscrepancy_forgetful(id_bit, cmp_bit, bit_pos, last_discrepancy, rom, new_discrepancy) ==
    IF id_bit # cmp_bit THEN new_discrepancy
    ELSE IF bit_pos = last_discrepancy THEN new_discrepancy
    ELSE IF bit_pos > last_discrepancy THEN bit_pos
    ELSE new_discrepancy

SearchNewDiscrepancy(id_bit, cmp_bit, bit_pos, last_discrepancy, rom, new_discrepancy) ==
    IF id_bit # cmp_bit THEN new_discrepancy
    ELSE IF bit_pos = last_discrepancy THEN new_discrepancy
    ELSE IF bit_pos > last_discrepancy THEN bit_pos
    ELSE IF BitOf(rom[(bit_pos \div 8) + 1], bit_pos % 8) = 0 THEN bit_pos
    ELSE new_discrepancy

\* rom[byte_idx] |= bit_mask  /  rom[byte_idx] &= ~bit_mask
SetRomBit(rom, bit_pos, dir) ==
    LET byte_idx == (bit_pos \div 8) + 1
        n == bit_pos % 8
        old == BitOf(rom[byte_idx], n)
    IN  [rom EXCEPT ![byte_idx] =
            IF dir = 1 THEN (IF old = 1 THEN @ ELSE @ + Pow2(n))
            ELSE (IF old = 1 THEN @ - Pow2(n) ELSE @)]

ZeroRom == <<0, 0, 0, 0, 0, 0, 0, 0>>

\* "search_bits" is the loop over the 64 bit positions, "memcpy_roms" the
\* copy of the finished code into the caller's array.
\* ... without device_count++
ow_search_rom_no_count ==
    << Set("device_count", 0),
       Set("last_discrepancy", -1),
       Set("done", 0),
       Set("srom", ZeroRom),
       While("!done&&device_count<max_devices",
          << Call("ow_reset", "none"),
             If("!rv", << Break >>, <<>>),
             CallN("ow_write_byte", OW_CMD_SEARCH_ROM),
             Set("new_discrepancy", -1),
             Set("bit_pos", 0),
             I("search_bits", 0, 0),
             If("!done",
                << I("memcpy_roms", 0, 0) >>,
                <<>>),
             SetV("last_discrepancy", "new_discrepancy"),
             If("last_discrepancy<0", << Set("done", 1) >>, <<>>) >>),
       ReturnV("device_count") >>

\* ... with while (!done)
ow_search_rom_uncapped ==
    << Set("device_count", 0),
       Set("last_discrepancy", -1),
       Set("done", 0),
       Set("srom", ZeroRom),
       While("!done",
          << Call("ow_reset", "none"),
             If("!rv", << Break >>, <<>>),
             CallN("ow_write_byte", OW_CMD_SEARCH_ROM),
             Set("new_discrepancy", -1),
             Set("bit_pos", 0),
             I("search_bits", 0, 0),
             If("!done",
                << I("memcpy_roms", 0, 0),
                   SetV("device_count", "device_count+1") >>,
                <<>>),
             SetV("last_discrepancy", "new_discrepancy"),
             If("last_discrepancy<0", << Set("done", 1) >>, <<>>) >>),
       ReturnV("device_count") >>

\* ... with while (!done && device_count <= max_devices)
ow_search_rom_one_more ==
    << Set("device_count", 0),
       Set("last_discrepancy", -1),
       Set("done", 0),
       Set("srom", ZeroRom),
       While("!done&&device_count<=max_devices",
          << Call("ow_reset", "none"),
             If("!rv", << Break >>, <<>>),
             CallN("ow_write_byte", OW_CMD_SEARCH_ROM),
             Set("new_discrepancy", -1),
             Set("bit_pos", 0),
             I("search_bits", 0, 0),
             If("!done",
                << I("memcpy_roms", 0, 0),
                   SetV("device_count", "device_count+1") >>,
                <<>>),
             SetV("last_discrepancy", "new_discrepancy"),
             If("last_discrepancy<0", << Set("done", 1) >>, <<>>) >>),
       ReturnV("device_count") >>

\* ... with the copy made whether or not the pass was cut short
ow_search_rom_records_aborted ==
    << Set("device_count", 0),
       Set("last_discrepancy", -1),
       Set("done", 0),
       Set("srom", ZeroRom),
       While("!done&&device_count<max_devices",
          << Call("ow_reset", "none"),
             If("!rv", << Break >>, <<>>),
             CallN("ow_write_byte", OW_CMD_SEARCH_ROM),
             Set("new_discrepancy", -1),
             Set("bit_pos", 0),
             I("search_bits", 0, 0),
             I("memcpy_roms", 0, 0),
             SetV("device_count", "device_count+1"),
             SetV("last_discrepancy", "new_discrepancy"),
             If("last_discrepancy<0", << Set("done", 1) >>, <<>>) >>),
       ReturnV("device_count") >>

ow_search_rom ==
    << Set("device_count", 0),
       Set("last_discrepancy", -1),
       Set("done", 0),
       Set("srom", ZeroRom),
       While("!done&&device_count<max_devices",
          << Call("ow_reset", "none"),
             If("!rv", << Break >>, <<>>),
             CallN("ow_write_byte", OW_CMD_SEARCH_ROM),
             Set("new_discrepancy", -1),
             Set("bit_pos", 0),
             I("search_bits", 0, 0),
             If("!done",
                << I("memcpy_roms", 0, 0),
                   SetV("device_count", "device_count+1") >>,
                <<>>),
             SetV("last_discrepancy", "new_discrepancy"),
             If("last_discrepancy<0", << Set("done", 1) >>, <<>>) >>),
       ReturnV("device_count") >>

-----------------------------------------------------------------------------
(* Actions.                                                                *)

\* "ow_crc8" is a call of ow_crc8() taken as one step; fi is the i of the
\* loop over the codes found.
\* ... failing when a phantom code was found
action_scan_fails_on_phantom ==
    << Call("ow_reset", "none"),
       If("!rv", << Return(-1) >>, <<>>),
       CallN("ow_read_rom", "rom"),
       If("rv==0",
          << I("ow_crc8", "rom", 7),
             SetV("crc", "rv"),
             SetV("single", "crc==rom[7]&&rom[0]!=0x00") >>,
          <<>>),
       CallN("ow_search_rom", 16),
       SetV("count", "rv"),
       If("count==0",
          <<>>,
          << Set("valid", 0),
             Set("phantom", 0),
             Set("fi", 0),
             While("fi<count",
                << I("ow_crc8", "found_roms[i]", 7),
                   SetV("crc", "rv"),
                   If("crc==found_roms[i][7]&&found_roms[i][0]!=0x00",
                      << SetV("valid", "valid+1") >>,
                      << SetV("phantom", "phantom+1") >>),
                   SetV("fi", "fi+1") >>),
             If("phantom>0", << Return(-1) >>, <<>>) >>),
       CallN("ds1821_read_status_reg", "status"),
       If("rv==0",
          << CallN("ds1821_read_th", "th"),
             If("rv==0", << CallN("ds1821_read_tl", "tl") >>, <<>>) >>,
          <<>>),
       Return(0) >>

\* ... classifying by the checksum alone
action_scan_checksum_only ==
    << Call("ow_reset", "none"),
       If("!rv", << Return(-1) >>, <<>>),
       CallN("ow_read_rom", "rom"),
       If("rv==0",
          << I("ow_crc8", "rom", 7),
             SetV("crc", "rv"),
             SetV("single", "crc==rom[7]&&rom[0]!=0x00") >>,
          <<>>),
       CallN("ow_search_rom", 16),
       SetV("count", "rv"),
       If("count==0",
          <<>>,
          << Set("valid", 0),
             Set("phantom", 0),
             Set("fi", 0),
             While("fi<count",
                << I("ow_crc8", "found_roms[i]", 7),
                   SetV("crc", "rv"),
                   If("crc==found_roms[i][7]",
                      << SetV("valid", "valid+1") >>,
                      << SetV("phantom", "phantom+1") >>),
                   SetV("fi", "fi+1") >>) >>),
       CallN("ds1821_read_status_reg", "status"),
       If("rv==0",
          << CallN("ds1821_read_th", "th"),
             If("rv==0", << CallN("ds1821_read_tl", "tl") >>, <<>>) >>,
          <<>>),
       Return(0) >>

action_scan ==
    << Call("ow_reset", "none"),
       If("!rv", << Return(-1) >>, <<>>),
       CallN("ow_read_rom", "rom"),
       If("rv==0",
          << I("ow_crc8", "rom", 7),
             SetV("crc", "rv"),
             SetV("single", "crc==rom[7]&&rom[0]!=0x00") >>,
          <<>>),
       CallN("ow_search_rom", 16),
       SetV("count", "rv"),
       If("count==0",
          <<>>,
          << Set("valid", 0),
             Set("phantom", 0),
             Set("fi", 0),
             While("fi<count",
                << I("ow_crc8", "found_roms[i]", 7),
                   SetV("crc", "rv"),
                   If("crc==found_roms[i][7]&&found_roms[i][0]!=0x00",
                      << SetV("valid", "valid+1") >>,
                      << SetV("phantom", "phantom+1") >>),
                   SetV("fi", "fi+1") >>) >>),
       CallN("ds1821_read_status_reg", "status"),
       If("rv==0",
          << CallN("ds1821_read_th", "th"),
             If("rv==0", << CallN("ds1821_read_tl", "tl") >>, <<>>) >>,
          <<>>),
       Return(0) >>

read_tout ==
    << If("!read_tout_flag", << Return(-1) >>, <<>>),
       SetMode("gpio_pin", PI_INPUT),
       SetPull("gpio_pin", PI_PUD_OFF),
       Read("gpio_pin", "raw"),
       ReturnV("raw") >>

action_probe ==
    << CallN("ds1821_read_status_reg", "status"),
       If("rv<0", << Return(-1) >>, <<>>),
       Set("th", 0),
       Set("tl", 0),
       CallN("ds1821_read_th", "th"),
       If("rv==0",
          << CallN("ds1821_read_tl", "tl"),
             SetV("have_thresholds", "rv==0") >>,
          << Set("have_thresholds", 0) >>),
       Call("read_tout", "none"),
       SetV("tout", "rv"),
       Return(0) >>

action_read_temp ==
    << Call("ds1821_start_convert", "none"),
       If("rv<0", << Return(-1) >>, <<>>),
       Usleep(1000000),
       CallN("ds1821_read_status_reg", "status"),
       If("rv<0", << Return(-1) >>, <<>>),
       CallN("ds1821_read_temperature", "temp"),
       If("rv<0", << Return(-1) >>, <<>>),
       CallN("ds1821_read_counter", "count_remain"),
       If("rv<0", << Return(-1) >>, <<>>),
       CallN("ds1821_read_slope", "count_per_c"),
       If("rv<0", << Return(-1) >>, <<>>),
       SetV("cpc", "count_per_c?count_per_c:1"),
       SetV("millideg", "millideg"),
       Call("read_tout", "none"),
       SetV("tout", "rv"),
       Return(0) >>

action_status ==
    << Call("ds1821_start_convert", "none"),
       If("rv<0", << Return(-1) >>, <<>>),
       Usleep(1000000),
       CallN("ds1821_read_status_reg", "status"),
       If("rv<0", << Return(-1) >>, <<>>),
       CallN("ds1821_read_temperature", "temp"),
       If("rv<0", << Return(-1) >>, <<>>),
       CallN("ds1821_read_counter", "count_remain"),
       If("rv<0", << Return(-1) >>, <<>>),
       CallN("ds1821_read_slope", "count_per_c"),
       If("rv<0", << Return(-1) >>, <<>>),
       SetV("cpc", "count_per_c?count_per_c:1"),
       SetV("millideg", "millideg"),
       Set("th", 0),
       Set("tl", 0),
       CallN("ds1821_read_th", "th"),
       If("rv==0",
          << CallN("ds1821_read_tl", "tl"),
             SetV("have_thresholds", "rv==0") >>,
          << Set("have_thresholds", 0) >>),
       Call("read_tout", "none"),
       SetV("tout", "rv"),
       Return(0) >>

\* action_set_thresholds reporting without the verifying reads
action_set_thresholds_unverified ==
    << CallN("ds1821_read_th", "cur_th"),
       If("rv<0", << Return(-1) >>, <<>>),
       CallN("ds1821_read_tl", "cur_tl"),
       If("rv<0", << Return(-1) >>, <<>>),
       If("set_th",
          << Call("ds1821_write_th", "new_th"),
             If("rv<0", << Return(-1) >>, <<>>) >>,
          <<>>),
       If("set_tl",
          << Call("ds1821_write_tl", "new_tl"),
             If("rv<0", << Return(-1) >>, <<>>) >>,
          <<>>),
       SetV("warned", "cur_tl>=cur_th"),
       Return(0) >>

\* action_set_thresholds going on to the verification after a failed write
action_set_thresholds_ignoring_write ==
    << CallN("ds1821_read_th", "cur_th"),
       If("rv<0", << Return(-1) >>, <<>>),
       CallN("ds1821_read_tl", "cur_tl"),
       If("rv<0", << Return(-1) >>, <<>>),
       If("set_th", << Call("ds1821_write_th", "new_th") >>, <<>>),
       If("set_tl", << Call("ds1821_write_tl", "new_tl") >>, <<>>),
       CallN("ds1821_read_th", "cur_th"),
       CallN("ds1821_read_tl", "cur_tl"),
       SetV("warned", "cur_tl>=cur_th"),
       Return(0) >>

action_set_thresholds ==
    << CallN("ds1821_read_th", "cur_th"),
       If("rv<0", << Return(-1) >>, <<>>),
       CallN("ds1821_read_tl", "cur_tl"),
       If("rv<0", << Return(-1) >>, <<>>),
       If("set_th",
          << Call("ds1821_write_th", "new_th"),
             If("rv<0", << Return(-1) >>, <<>>) >>,
          <<>>),
       If("set_tl",
          << Call("ds1821_write_tl", "new_tl"),
             If("rv<0", << Return(-1) >>, <<>>) >>,
          <<>>),
       CallN("ds1821_read_th", "cur_th"),
       If("rv<0", << Return(-1) >>, <<>>),
       CallN("ds1821_read_tl", "cur_tl"),
       If("rv<0", << Return(-1) >>, <<>>),
       SetV("warned", "cur_tl>=cur_th"),
       Return(0) >>

\* action_set_oneshot with the broadcast write first
action_set_oneshot_broadcast_first ==
    << CallN("ds1821_read_status_reg", "status"),
       If("rv<0", << Return(-1) >>, <<>>),
       Set("new_status", DS1821_STATUS_1SHOT),
       Call("ds1821_write_status_skiprom", "new_status"),
       If("rv<0", << Return(-1) >>, <<>>),
       CallN("ds1821_read_status_skiprom", "status"),
       Call("ds1821_write_status_reg", "new_status"),
       If("rv<0", << Return(-1) >>, <<>>),
       CallN("ds1821_read_status_reg", "status"),
       Call("ds1821_write_status_reg", "new_status"),
       If("rv<0", << Return(-1) >>, <<>>),
       CallN("ds1821_read_status_reg", "status"),
       CallN("ds1821_read_status_skiprom", "status"),
       Return(0) >>

action_set_oneshot ==
    << CallN("ds1821_read_status_reg", "status"),
       If("rv<0", << Return(-1) >>, <<>>),
       Set("new_status", DS1821_STATUS_1SHOT),
       Call("ds1821_write_status_reg", "new_status"),
       If("rv<0", << Return(-1) >>, <<>>),
       CallN("ds1821_read_status_reg", "status"),
       Call("ds1821_write_status_skiprom", "new_status"),
       If("rv<0", << Return(-1) >>, <<>>),
       CallN("ds1821_read_status_skiprom", "status"),
       Call("ds1821_write_status_reg", "new_status"),
       If("rv<0", << Return(-1) >>, <<>>),
       CallN("ds1821_read_status_reg", "status"),
       CallN("ds1821_read_status_skiprom", "status"),
       Return(0) >>

\* power_cycle_ds1821 switching the supply on first and off last
power_cycle_ds1821_high_first ==
    << If("power_pin<0",
          << If("!quiet", << Set("instructed", 1) >>, <<>>),
             Return(-1) >>,
          <<>>),
       SetMode("power_pin", PI_OUTPUT),
       Write("power_pin", 1),
       Usleep(500000),
       Write("power_pin", 0),
       Usleep(500000),
       Return(0) >>

\* "instructed": the request to reconnect VDD by hand has been printed
\* power_cycle_ds1821 taking a missing power pin for nothing to do
power_cycle_ds1821_nothing_to_do ==
    << If("power_pin<0",
          << If("!quiet", << Set("instructed", 1) >>, <<>>),
             Return(0) >>,
          <<>>),
       SetMode("power_pin", PI_OUTPUT),
       Write("power_pin", 0),
       Usleep(500000),
       Write("power_pin", 1),
       Usleep(500000),
       Return(0) >>

power_cycle_ds1821 ==
    << If("power_pin<0",
          << If("!quiet", << Set("instructed", 1) >>, <<>>),
             Return(-1) >>,
          <<>>),
       SetMode("power_pin", PI_OUTPUT),
       Write("power_pin", 0),
       Usleep(500000),
       Write("power_pin", 1),
       Usleep(500000),
       Return(0) >>

\* system("pinctrl set N op dh"): the pin becomes an output driving high
persist_power_pin ==
    << If("power_pin<0", << Return(0) >>, <<>>),
       I("pinctrl_op_dh", "power_pin", 0),
       Return(0) >>

-----------------------------------------------------------------------------
(* main(), after the argument loop.                                        *)

main_dispatch ==
    << If("action==scan",
          << Call("action_scan", "none"), SetV("ret", "rv") >>,
       << If("action==probe",
          << Call("action_probe", "none"), SetV("ret", "rv") >>,
       << If("do_status",
          << Call("action_status", "none"), SetV("ret", "rv") >>,
       << If("do_temp",
          << Call("action_read_temp", "none"), SetV("ret", "rv") >>,
       << If("has_th||has_tl",
          << SetV("set_th", "has_th"),
             SetV("set_tl", "has_tl"),
             SetV("new_th", "arg_th"),
             SetV("new_tl", "arg_tl"),
             Call("action_set_thresholds", "none"),
             SetV("ret", "rv") >>,
       << If("action==set-oneshot||do_fix",
          << Call("action_probe", "none"),
             SetV("ret", "rv"),
             If("ret==0",
                << Call("action_set_oneshot", "none"), SetV("ret", "rv") >>,
                <<>>),
             If("do_fix&&ret==0",
                << Call("power_cycle_ds1821", "none"), SetV("ret", "rv") >>,
                <<>>) >>,
          << Set("ret", 1) >>) >>) >>) >>) >>) >>) >>

\* ... returning at once when the action did not succeed
main_body_leaves_on_failure ==
    << If("!action", << Return(1) >>, <<>>),
       If("geteuid!=0", << Return(1) >>, <<>>),
       SetV("do_fix", "action==fix"),
       SetV("do_temp", "action==temp"),
       SetV("do_status", "action==status"),
       If("do_status", << Set("quiet", 1) >>, <<>>),
       I("gpioInitialise", 0, 0),
       If("rv<0", << Return(1) >>, <<>>),
       If("power_pin>=0",
          << SetMode("power_pin", PI_OUTPUT),
             Write("power_pin", 1) >>,
          <<>>) >>
    \o ow_release
    \o << If("power_pin>=0", << Usleep(500000) >>, << Delay(1000) >>),
          Set("ret", 0) >>
    \o main_dispatch
    \o << If("ret!=0", << ReturnV("ret<0?1:0") >>, <<>>),
          I("gpioTerminate", 0, 0),
          Call("persist_power_pin", "none"),
          ReturnV("ret<0?1:0") >>

main_body ==
    << If("!action", << Return(1) >>, <<>>),
       If("geteuid!=0", << Return(1) >>, <<>>),
       SetV("do_fix", "action==fix"),
       SetV("do_temp", "action==temp"),
       SetV("do_status", "action==status"),
       If("do_status", << Set("quiet", 1) >>, <<>>),
       I("gpioInitialise", 0, 0),
       If("rv<0", << Return(1) >>, <<>>),
       If("power_pin>=0",
          << SetMode("power_pin", PI_OUTPUT),
             Write("power_pin", 1) >>,
          <<>>) >>
    \o ow_release
    \o << If("power_pin>=0", << Usleep(500000) >>, << Delay(1000) >>),
          Set("ret", 0) >>
    \o main_dispatch
    \o << I("gpioTerminate", 0, 0),
          Call("persist_power_pin", "none"),
          ReturnV("ret<0?1:0") >>

-----------------------------------------------------------------------------
(* The interpreter.                                                        *)

\* Functions of the bit and byte transceiver: their activity belongs to the
\* trace of the call that uses them.
WireFns == {"ow_reset", "ow_write_bit", "ow_read_bit", "ow_write_byte", "ow_read_byte"}

WireProg(fn) ==
    CASE fn = "ow_reset"      -> ow_reset
      [] fn = "ow_write_bit"  -> ow_write_bit
      [] fn = "ow_read_bit"   -> ow_read_bit
      [] fn = "ow_write_byte" -> ow_write_byte
      [] fn = "ow_read_byte"  -> ow_read_byte

\* The parameter a function receives its argument in ("none": no parameter).
Param(fn) ==
    CASE fn = "ow_write_bit"                -> "bit"
      [] fn = "ow_write_byte"               -> "byte"
      [] fn = "ds1821_read_status_reg"      -> "status_p"
      [] fn = "ds1821_write_status_reg"     -> "status_v"
      [] fn = "ds1821_write_status_skiprom" -> "status_v"
      [] fn = "ds1821_read_status_skiprom"  -> "status_p"
      [] fn = "ds1821_read_temperature"     -> "temp_p"
      [] fn = "ds1821_read_counter"         -> "count_remain_p"
      [] fn = "ds1821_read_slope"           -> "count_per_c_p"
      [] fn = "ds1821_read_th"              -> "th_p"
      [] fn = "ds1821_read_tl"              -> "tl_p"
      [] fn = "ds1821_write_th"             -> "th_v"
      [] fn = "ds1821_write_tl"             -> "tl_v"
      [] fn = "ow_read_rom"                 -> "rom_p"
      [] fn = "ow_search_rom"               -> "max_devices"
      [] fn = "ow_crc8"                     -> "len"
      [] OTHER                              -> "none"

\* uint8_t x |= (1 << n)
OrBit(x, n) == (IF BitOf(x, n) = 1 THEN x ELSE x + Pow2(n)) % 256

\* (int8_t) of an int
ToInt8(n) == ((n + 128) % 256) - 128

\* C expressions of the translated functions, over the variables
\* C's integer division, truncating toward zero (d > 0)
TruncDiv(n, d) == IF n >= 0 THEN n \div d ELSE -((-n) \div d)

B(cond) == IF cond THEN 1 ELSE 0

\* int cpc = count_per_c ? count_per_c : 1, with 0 taken for the full count
Cpc_zero_is_256(count_per_c) == IF count_per_c # 0 THEN count_per_c ELSE 256

\* int cpc = count_per_c ? count_per_c : 1
Cpc(count_per_c) == IF count_per_c # 0 THEN count_per_c ELSE 1

\* millideg with the quotient rounded down instead of toward zero
Millideg_floor(temp, count_remain, cpc) ==
    temp * 1000 - 250 + (((cpc - count_remain) * 1000) \div cpc)

\* millideg of action_read_temp and action_status
Millideg(temp, count_remain, cpc) ==
    temp * 1000 - 250 + TruncDiv((cpc - count_remain) * 1000, cpc)

\* hires of action_read_temp, as an exact fraction <<numerator, denominator>>
\* of (float)temp - 0.25f + (float)(cpc - count_remain) / (float)cpc
Hires(temp, count_remain, cpc) ==
    <<(4 * temp - 1) * cpc + 4 * (cpc - count_remain), 4 * cpc>>

\* What action_read_temp and action_status print about the sample, from the
\* variables l: the values of the printf arguments, in order.
Printed(fn, l) ==
    IF fn = "action_read_temp"
    THEN IF l["quiet"] # 0
         THEN <<Hires(l["temp"], l["count_remain"], Cpc(l["count_per_c"]))>>
         ELSE <<l["temp"], l["count_remain"], l["count_per_c"],
                Hires(l["temp"], l["count_remain"], Cpc(l["count_per_c"])),
                Millideg(l["temp"], l["count_remain"], Cpc(l["count_per_c"])),
                BitOf(l["status"], 6), BitOf(l["status"], 5), l["tout"]>>
    ELSE <<Millideg(l["temp"], l["count_remain"], Cpc(l["count_per_c"])),
           BitOf(l["status"], 6), BitOf(l["status"], 5),
           l["have_thresholds"], l["th"], l["tl"], l["tout"]>>

\* a ^ b on uint8_t
Xor8(a, b) ==
    LET x(n) == ((BitOf(a, n) + BitOf(b, n)) % 2) * Pow2(n)
    IN  x(0) + x(1) + x(2) + x(3) + x(4) + x(5) + x(6) + x(7)

\* ow_crc8() as an operator: one turn of the loop over j ...
Crc8Bit(crc, byte) ==
    LET mix == ((crc % 2) + (byte % 2)) % 2
        shifted == crc \div 2
    IN  IF mix # 0 THEN Xor8(shifted, 140) ELSE shifted

\* ... the eight turns for one byte (byte >>= 1 after each), each turn
\* applied to the value the turn before left ...
Crc8Byte(crc, byte) ==
    LET turn == [c \in 0..255, b \in 0..255 |-> Crc8Bit(c, b)]
        c1 == turn[crc, byte]
        c2 == turn[c1, byte \div 2]
        c3 == turn[c2, byte \div 4]
        c4 == turn[c3, byte \div 8]
        c5 == turn[c4, byte \div 16]
        c6 == turn[c5, byte \div 32]
        c7 == turn[c6, byte \div 64]
    IN  turn[c7, byte \div 128]

\* ... and the loop over i, from crc = 0
RECURSIVE Crc8Upto(_, _)
Crc8Upto(data, len) ==
    IF len = 0 THEN 0 ELSE Crc8Byte(Crc8Upto(data, len - 1), data[len])

\* a & b on uint8_t
And8(a, b) ==
    LET x(n) == BitOf(a, n) * BitOf(b, n) * Pow2(n)
    IN  x(0) + x(1) + x(2) + x(3) + x(4) + x(5) + x(6) + x(7)

\* (status & mask) ? 1 : 0   and   !!(s & mask)
StatusFlag(status, mask) == IF And8(status, mask) # 0 THEN 1 ELSE 0

\* ... with the masks of the two alarm flags exchanged
ProbePrinted_alarms_swapped(l) ==
    [status  |-> l["status"],
     done    |-> StatusFlag(l["status"], DS1821_STATUS_DONE),
     thf     |-> StatusFlag(l["status"], DS1821_STATUS_TLF),
     tlf     |-> StatusFlag(l["status"], DS1821_STATUS_THF),
     nvb     |-> StatusFlag(l["status"], DS1821_STATUS_NVB),
     oneshot |-> StatusFlag(l["status"], DS1821_STATUS_1SHOT)]

\* What action_probe prints about the status byte, from the variables l: the
\* key=value lines of the quiet output, the lines of print_status otherwise.
ProbePrinted(l) ==
    IF l["quiet"] # 0
    THEN [status  |-> l["status"],
          done    |-> StatusFlag(l["status"], DS1821_STATUS_DONE),
          thf     |-> StatusFlag(l["status"], DS1821_STATUS_THF),
          tlf     |-> StatusFlag(l["status"], DS1821_STATUS_TLF),
          nvb     |-> StatusFlag(l["status"], DS1821_STATUS_NVB),
          oneshot |-> StatusFlag(l["status"], DS1821_STATUS_1SHOT)]
    ELSE [status  |-> l["status"],
          done    |-> StatusFlag(l["status"], 128),
          thf     |-> StatusFlag(l["status"], 64),
          tlf     |-> StatusFlag(l["status"], 32),
          nvb     |-> StatusFlag(l["status"], 16),
          oneshot |-> StatusFlag(l["status"], 1)]

Eval(expr) ==
    CASE expr = "none"        -> 0
      [] expr = "!raw"        -> IF loc["raw"] = 0 THEN 1 ELSE 0
      [] expr = "raw"         -> loc["raw"]
      [] expr = "presence"    -> loc["presence"]
      [] expr = "rbit"        -> loc["rbit"]
      [] expr = "rbyte"       -> loc["rbyte"]
      [] expr = "byte&1"      -> loc["byte"] % 2
      [] expr = "byte>>1"     -> loc["byte"] \div 2
      [] expr = "i+1"         -> loc["i"] + 1
      [] expr = "rbyte|1<<i"  -> OrBit(loc["rbyte"], loc["i"])
      [] expr = "rv"          -> rv
      [] expr = "rv==0"       -> B(rv = 0)
      [] expr = "(int8_t)rv"  -> ToInt8(rv)
      [] expr = "status_v"    -> loc["status_v"]
      [] expr = "(uint8_t)th_v" -> loc["th_v"] % 256
      [] expr = "(uint8_t)tl_v" -> loc["tl_v"] % 256
      [] expr = "new_status"  -> loc["new_status"]
      [] expr = "new_th"      -> loc["new_th"]
      [] expr = "new_tl"      -> loc["new_tl"]
      [] expr = "has_th"      -> loc["has_th"]
      [] expr = "has_tl"      -> loc["has_tl"]
      [] expr = "arg_th"      -> loc["arg_th"]
      [] expr = "arg_tl"      -> loc["arg_tl"]
      [] expr = "rom[ri]=rv"  -> [loc["rom"] EXCEPT ![loc["ri"] + 1] = rv]
      [] expr = "ri+1"        -> loc["ri"] + 1
      [] expr = "device_count"    -> loc["device_count"]
      [] expr = "device_count+1"  -> loc["device_count"] + 1
      [] expr = "new_discrepancy" -> loc["new_discrepancy"]
      [] expr = "count_per_c?count_per_c:1" -> Cpc(loc["count_per_c"])
      [] expr = "millideg"    ->
            Millideg(loc["temp"], loc["count_remain"], loc["cpc"])
      [] expr = "cur_tl>=cur_th"  -> B(loc["cur_tl"] >= loc["cur_th"])
      [] expr = "action==fix"     -> B(loc["action"] = "fix")
      [] expr = "action==temp"    -> B(loc["action"] = "temp")
      [] expr = "action==status"  -> B(loc["action"] = "status")
      [] expr = "ret<0?1:0"   -> IF loc["ret"] < 0 THEN 1 ELSE 0
      [] expr = "data[i]"     -> loc["data"][loc["i"] + 1]
      [] expr = "(crc^byte)&1" -> Xor8(loc["crc"], loc["byte"]) % 2
      [] expr = "crc>>1"      -> loc["crc"] \div 2
      [] expr = "crc^0x8C"    -> Xor8(loc["crc"], 140)
      [] expr = "j+1"         -> loc["j"] + 1
      [] expr = "crc"         -> loc["crc"]
      [] expr = "data[7]=crc7" -> [loc["data"] EXCEPT ![8] = loc["crc7"]]
      [] expr = "rom"         -> loc["rom"]
      [] expr = "found_roms[i]" -> loc["roms"][loc["fi"] + 1]
      [] expr = "crc==rom[7]&&rom[0]!=0x00" ->
            B(loc["crc"] = loc["rom"][8] /\ loc["rom"][1] # 0)
      [] expr = "valid+1"     -> loc["valid"] + 1
      [] expr = "phantom+1"   -> loc["phantom"] + 1
      [] expr = "fi+1"        -> loc["fi"] + 1

Cond(c) ==
    CASE c = "bit"   -> loc["bit"] # 0
      [] c = "i<8"   -> loc["i"] < 8
      [] c = "rv"    -> rv # 0
      [] c = "!rv"   -> rv = 0
      [] c = "rv<0"  -> rv < 0
      [] c = "rv==0" -> rv = 0
      [] c = "ri<8"  -> loc["ri"] < 8
      [] c = "!read_tout_flag" -> loc["read_tout_flag"] = 0
      [] c = "power_pin>=0"    -> loc["power_pin"] >= 0
      [] c = "power_pin<0"     -> loc["power_pin"] < 0
      [] c = "!action"         -> loc["action"] = "NULL"
      [] c = "geteuid!=0"      -> ~env.root
      [] c = "do_status"       -> loc["do_status"] # 0
      [] c = "do_temp"         -> loc["do_temp"] # 0
      [] c = "action==scan"    -> loc["action"] = "scan"
      [] c = "action==probe"   -> loc["action"] = "probe"
      [] c = "has_th||has_tl"  -> loc["has_th"] # 0 \/ loc["has_tl"] # 0
      [] c = "action==set-oneshot||do_fix" ->
            loc["action"] = "set-oneshot" \/ loc["do_fix"] # 0
      [] c = "ret==0"          -> loc["ret"] = 0
      [] c = "ret!=0"          -> loc["ret"] # 0
      [] c = "do_fix&&ret==0"  -> loc["do_fix"] # 0 /\ loc["ret"] = 0
      [] c = "set_th"          -> loc["set_th"] # 0
      [] c = "set_tl"          -> loc["set_tl"] # 0
      [] c = "!done"           -> loc["done"] = 0
      [] c = "!done&&device_count<max_devices" ->
            loc["done"] = 0 /\ loc["device_count"] < loc["max_devices"]
      [] c = "!done&&device_count<=max_devices" ->
            loc["done"] = 0 /\ loc["device_count"] <= loc["max_devices"]
      [] c = "last_discrepancy<0" -> loc["last_discrepancy"] < 0
      [] c = "i<len"           -> loc["i"] < loc["len"]
      [] c = "j<8"             -> loc["j"] < 8
      [] c = "mix"             -> loc["mix"] # 0
      [] c = "!quiet"          -> loc["quiet"] = 0
      [] c = "count==0"        -> loc["count"] = 0
      [] c = "fi<count"        -> loc["fi"] < loc["count"]
      [] c = "crc==found_roms[i][7]&&found_roms[i][0]!=0x00" ->
            /\ loc["crc"] = loc["roms"][loc["fi"] + 1][8]
            /\ loc["roms"][loc["fi"] + 1][1] # 0
      [] c = "crc==found_roms[i][7]" ->
            loc["crc"] = loc["roms"][loc["fi"] + 1][8]
      [] c = "phantom>0"       -> loc["phantom"] > 0

\* History of the running action.  failed: a reset of this action found no
\* presence; last: the latest bus operation was such a reset; first: the
\* action's first bus operation was; after: a bus operation followed a failed
\* reset; retry: a function was called again right after its reset failed;
\* lastfn, calls: the function called last, and all of them in order; acts:
\* the actions main() has called so far; absent: some reset of the run, in
\* whatever action, found no presence.
NoHist ==
    [failed |-> 0, after |-> 0, last |-> 0, first |-> 0, any |-> 0,
     retry |-> 0, lastfn |-> "none", calls |-> <<>>, acts |-> <<>>,
     absent |-> 0]

ActionFns ==
    {"action_scan", "action_probe", "action_read_temp", "action_status",
     "action_set_thresholds", "action_set_oneshot"}

\* a bus operation other than a reset that found no presence
HistOp(h) ==
    [h EXCEPT !.after = IF h.failed = 1 THEN 1 ELSE h.after,
              !.last = 0, !.any = 1]

\* a reset that found no presence
HistResetFailed(h) ==
    [h EXCEPT !.after = IF h.failed = 1 THEN 1 ELSE h.after,
              !.failed = 1, !.last = 1, !.absent = 1,
              !.first = IF h.any = 0 THEN 1 ELSE h.first,
              !.any = 1]

HistCall(h, fn) ==
    IF fn \in ActionFns
    THEN [NoHist EXCEPT !.acts = Append(h.acts, fn), !.absent = h.absent]
    ELSE IF fn = "power_cycle_ds1821"
    THEN [h EXCEPT !.lastfn = fn, !.acts = Append(@, fn)]
    ELSE [h EXCEPT !.retry = IF h.last = 1 /\ h.lastfn = fn THEN 1 ELSE h.retry,
                   !.lastfn = fn,
                   !.calls = Append(@, fn)]

\* GPIO calls on the data pin are bus activity
HistPin(h, pin) == IF pin = loc["gpio_pin"] THEN HistOp(h) ELSE h

Top == Head(stack)
Ins == Head(Top.k)
Rest == Tail(Top.k)
Running == stack # <<>> /\ Top.k # <<>>
At(op) == Running /\ Ins.op = op

Goto(k) == stack' = <<[fn |-> Top.fn, k |-> k]>> \o Tail(stack)

Log(op, pin, arg) == events' = Append(events, <<op, pin, arg, clock>>)

\* Drop the rest of a loop body and the loop itself.
RECURSIVE AfterLoop(_)
AfterLoop(k) ==
    IF k = <<>> THEN <<>>
    ELSE IF Head(k).op = "while" THEN Tail(k)
    ELSE AfterLoop(Tail(k))

\* What gpioRead can return: an output reads back its own level, an input
\* reads the line, which the device or the pull resistor decides.
ReadLevels(pin) ==
    IF pinMode[pin] = PI_OUTPUT /\ pinLevel[pin] \in {0, 1}
    THEN {pinLevel[pin]} ELSE {0, 1}

GpioSetMode ==
    /\ At("gpioSetMode")
    /\ pinMode' = [pinMode EXCEPT ![loc[Ins.a]] = Ins.b]
    /\ Log("gpioSetMode", loc[Ins.a], Ins.b)
    /\ Goto(Rest)
    /\ hist' = HistPin(hist, loc[Ins.a])
    /\ UNCHANGED <<loc, rv, pinPull, pinLevel, clock, phase, argv, env, dev,
                   exit_code, srch>>

GpioSetPullUpDown ==
    /\ At("gpioSetPullUpDown")
    /\ pinPull' = [pinPull EXCEPT ![loc[Ins.a]] = Ins.b]
    /\ Log("gpioSetPullUpDown", loc[Ins.a], Ins.b)
    /\ Goto(Rest)
    /\ hist' = HistPin(hist, loc[Ins.a])
    /\ UNCHANGED <<loc, rv, pinMode, pinLevel, clock, phase, argv, env, dev,
                   exit_code, srch>>

GpioWrite ==
    /\ At("gpioWrite")
    /\ pinLevel' = [pinLevel EXCEPT ![loc[Ins.a]] = Ins.b]
    /\ Log("gpioWrite", loc[Ins.a], Ins.b)
    /\ Goto(Rest)
    /\ hist' = HistPin(hist, loc[Ins.a])
    /\ UNCHANGED <<loc, rv, pinMode, pinPull, clock, phase, argv, env, dev,
                   exit_code, srch>>

GpioRead ==
    /\ At("gpioRead")
    /\ \E v \in ReadLevels(loc[Ins.a]) :
          /\ loc' = [loc EXCEPT ![Ins.b] = v]
          /\ Log("gpioRead", loc[Ins.a], v)
    /\ Goto(Rest)
    /\ hist' = HistPin(hist, loc[Ins.a])
    /\ UNCHANGED <<rv, pinMode, pinPull, pinLevel, clock, phase, argv, env, dev,
                   exit_code, srch>>

GpioDelay ==
    /\ At("gpioDelay")
    /\ clock' = clock + Ins.a
    /\ Log("gpioDelay", -1, Ins.a)
    /\ Goto(Rest)
    /\ UNCHANGED <<loc, rv, pinMode, pinPull, pinLevel, phase, argv, env, dev,
                   exit_code, hist, srch>>

DoSet ==
    /\ At("set")
    /\ loc' = [loc EXCEPT ![Ins.a] = Ins.b]
    /\ Goto(Rest)
    /\ UNCHANGED <<rv, pinMode, pinPull, pinLevel, clock, events, phase, argv,
                   env, dev, exit_code, hist, srch>>

DoSetV ==
    /\ At("setv")
    /\ loc' = [loc EXCEPT ![Ins.a] = Eval(Ins.b)]
    /\ Goto(Rest)
    /\ UNCHANGED <<rv, pinMode, pinPull, pinLevel, clock, events, phase, argv,
                   env, dev, exit_code, hist, srch>>

DoIf ==
    /\ At("if")
    /\ Goto((IF Cond(Ins.a) THEN Ins.b[1] ELSE Ins.b[2]) \o Rest)
    /\ UNCHANGED <<loc, rv, pinMode, pinPull, pinLevel, clock, events, phase,
                   argv, env, dev, exit_code, hist, srch>>

DoWhile ==
    /\ At("while")
    /\ Goto(IF Cond(Ins.a) THEN Ins.b \o Top.k ELSE Rest)
    /\ UNCHANGED <<loc, rv, pinMode, pinPull, pinLevel, clock, events, phase,
                   argv, env, dev, exit_code, hist, srch>>

\* A call of a transceiver function: its frame is pushed, the caller resumes
\* after the call.
WireCall ==
    /\ At("call")
    /\ Ins.a \in WireFns
    /\ stack' = <<[fn |-> Ins.a, k |-> WireProg(Ins.a)],
                  [fn |-> Top.fn, k |-> Rest]>> \o Tail(stack)
    /\ loc' = IF Param(Ins.a) = "none" THEN loc
              ELSE [loc EXCEPT ![Param(Ins.a)] = Eval(Ins.b)]
    /\ UNCHANGED <<rv, pinMode, pinPull, pinLevel, clock, events, phase, argv,
                   env, dev, exit_code, hist, srch>>

DoReturn ==
    /\ At("return")
    /\ rv' = Ins.a
    /\ stack' = Tail(stack)
    /\ UNCHANGED <<loc, pinMode, pinPull, pinLevel, clock, events, phase, argv,
                   env, dev, exit_code, hist, srch>>

DoReturnV ==
    /\ At("returnv")
    /\ rv' = Eval(Ins.a)
    /\ stack' = Tail(stack)
    /\ UNCHANGED <<loc, pinMode, pinPull, pinLevel, clock, events, phase, argv,
                   env, dev, exit_code, hist, srch>>

-----------------------------------------------------------------------------
(* SpecWire: one transceiver operation on an idle bus, pigpio call by      *)
(* pigpio call.  The operation and its argument are the inputs; the line   *)
(* level at each sample is the device's choice.                            *)

LocInit ==
    [gpio_pin |-> DEFAULT_GPIO_PIN, power_pin |-> DEFAULT_POWER_PIN,
     read_tout_flag |-> 0, verbose |-> 0, quiet |-> 0,
     action |-> "NULL", arg_th |-> 0, arg_tl |-> 0, has_th |-> 0, has_tl |-> 0,
     early_exit |-> -1, do_fix |-> 0, do_temp |-> 0, do_status |-> 0,
     ret |-> 0, gpio_up |-> 0, gpio_inits |-> 0, gpio_downs |-> 0,
     raw |-> 0, presence |-> 0, bit |-> 0, byte |-> 0, rbit |-> 0,
     rbyte |-> 0, i |-> 0,
     status_p |-> "none", temp_p |-> "none", count_remain_p |-> "none",
     count_per_c_p |-> "none", th_p |-> "none", tl_p |-> "none",
     rom_p |-> "none", status_v |-> 0, th_v |-> 0, tl_v |-> 0,
     status |-> 0, temp |-> 0, count_remain |-> 0, count_per_c |-> 0,
     cpc |-> 1, millideg |-> 0, th |-> 0, tl |-> 0, have_thresholds |-> 0,
     tout |-> -1, cur_th |-> 0, cur_tl |-> 0, set_th |-> 0, set_tl |-> 0,
     new_th |-> 0, new_tl |-> 0, warned |-> 0, new_status |-> 0,
     rom |-> <<0, 0, 0, 0, 0, 0, 0, 0>>, ri |-> 0, count |-> 0,
     max_devices |-> 0, device_count |-> 0, last_discrepancy |-> -1,
     new_discrepancy |-> -1, done |-> 0, bit_pos |-> 0, srom |-> ZeroRom,
     roms |-> <<>>, crc |-> 0, mix |-> 0, j |-> 0, len |-> 0, data |-> ZeroRom,
     crc7 |-> 0, crc8 |-> 0, instructed |-> 0, single |-> 0, valid |-> 0,
     phantom |-> 0, fi |-> 0]

NoPins == [p \in Pins |-> -1]

\* The data line as main() leaves it before any action runs: released.
IdleMode(pin) == [NoPins EXCEPT ![pin] = PI_INPUT]
IdlePull(pin) == [NoPins EXCEPT ![pin] = PI_PUD_UP]

NoSearch == [pc |-> "off"]
NoDev ==
    [status |-> 0, th |-> 0, tl |-> 0, temp |-> 0, counter |-> 0, slope |-> 0,
     rom |-> <<0, 0, 0, 0, 0, 0, 0, 0>>, sel |-> -1, idx |-> 0]

WireInit ==
    /\ \E fn \in WireFns, arg \in 0..255 :
          /\ Param(fn) = "none" => arg = 0
          /\ Param(fn) = "bit" => arg \in {0, 1}
          /\ stack = <<[fn |-> fn, k |-> WireProg(fn)]>>
          /\ loc = IF Param(fn) = "none" THEN LocInit
                   ELSE [LocInit EXCEPT ![Param(fn)] = arg]
          /\ phase = fn
          /\ argv = <<arg>>
    /\ rv = 0
    /\ pinMode = IdleMode(DEFAULT_GPIO_PIN)
    /\ pinPull = IdlePull(DEFAULT_GPIO_PIN)
    /\ pinLevel = NoPins
    /\ clock = 0
    /\ events = <<>>
    /\ env = [root |-> TRUE, init_ok |-> TRUE]
    /\ dev = NoDev
    /\ exit_code = -1
    /\ hist = NoHist
    /\ srch = NoSearch

WireNext ==
    \/ GpioSetMode
    \/ GpioSetPullUpDown
    \/ GpioWrite
    \/ GpioRead
    \/ GpioDelay
    \/ DoSet
    \/ DoSetV
    \/ DoIf
    \/ DoWhile
    \/ WireCall
    \/ DoReturn
    \/ DoReturnV

SpecWire == WireInit /\ [][WireNext]_vars

-----------------------------------------------------------------------------
(* The timeline of one transceiver operation, read off its trace.          *)

\* durations of the transceiver operations (SpecWire measures them)
ResetUs == OW_RESET_LOW_US + OW_RESET_RELEASE_US + OW_RESET_PRESENCE_US
SlotUs == OW_WRITE1_LOW_US + OW_WRITE1_RELEASE_US + OW_RECOVERY_US
ByteUs == 8 * SlotUs

WireDone(fn) == phase = fn /\ stack = <<>>

TimesOf(op, arg) ==
    LET s == SelectSeq(events, LAMBDA e : e[1] = op /\ e[3] = arg)
    IN  [n \in 1..Len(s) |-> s[n][4]]

\* when the master starts pulling the line low, and when it lets go
LowAt == TimesOf("gpioWrite", 0)
ReleaseAt == TimesOf("gpioSetMode", PI_INPUT)
Samples == SelectSeq(events, LAMBDA e : e[1] = "gpioRead")
DelaysOf == LET s == SelectSeq(events, LAMBDA e : e[1] = "gpioDelay")
            IN  [n \in 1..Len(s) |-> s[n][3]]

Released(pin) == pinMode[pin] = PI_INPUT /\ pinPull[pin] = PI_PUD_UP

\* C9: a reset pulls the line low at 0 for 480 us, releases it, samples once
\* 70 us later, waits 410 us more (960 us in all), returns 1 exactly when the
\* sample was low, and leaves the line released.
C9_ResetTiming ==
    WireDone("ow_reset") =>
        /\ LowAt = <<0>>
        /\ ReleaseAt = <<480>>
        /\ Len(Samples) = 1
        /\ Samples[1][4] = 550
        /\ DelaysOf = <<480, 70, 410>>
        /\ clock = 960
        /\ (rv = 1) <=> (Samples[1][3] = 0)
        /\ rv \in {0, 1}
        /\ Released(loc["gpio_pin"])

C9_Witness ==
    WireDone("ow_reset") /\ rv = 1 /\ clock = 960

\* C10: a write slot pulls low at 0 and releases at 6 us (bit 1) or 60 us
\* (bit 0), stays released 64 us or 10 us, recovers 2 us; either way it lasts
\* 72 us and ends with the line released.
C10_WriteTiming ==
    WireDone("ow_write_bit") =>
        /\ LowAt = <<0>>
        /\ ReleaseAt = IF argv[1] = 1 THEN <<6>> ELSE <<60>>
        /\ DelaysOf = IF argv[1] = 1 THEN <<6, 64, 2>> ELSE <<60, 10, 2>>
        /\ Samples = <<>>
        /\ clock = 72
        /\ Released(loc["gpio_pin"])

C10_Witness ==
    WireDone("ow_write_bit") /\ argv[1] = 0 /\ clock = 72

EmittedBits ==
    [n \in 1..Len(LowAt) |->
        IF ReleaseAt[n] - LowAt[n] = OW_WRITE1_LOW_US THEN 1 ELSE 0]

\* the levels a byte read sampled, slot by slot
SampledBits == [n \in 1..Len(Samples) |-> Samples[n][3]]

\* C11: ow_write_byte(v) emits exactly 8 slots, slot i carrying bit i of v
\* (least significant first), and ow_read_byte returns the value whose bit i
\* is the level sampled in slot i, so reading back the slots written for v
\* gives v.
C11_ByteRoundTrip ==
    /\ WireDone("ow_write_byte") =>
          /\ Len(LowAt) = 8
          /\ Len(ReleaseAt) = 8
          /\ \A i \in 0..7 :
                /\ LowAt[i + 1] = i * SlotUs
                /\ ReleaseAt[i + 1] - LowAt[i + 1] \in
                      {OW_WRITE1_LOW_US, OW_WRITE0_LOW_US}
                /\ EmittedBits[i + 1] = BitOf(argv[1], i)
    /\ WireDone("ow_read_byte") =>
          /\ Len(Samples) = 8
          /\ rv \in 0..255
          /\ \A i \in 0..7 : BitOf(rv, i) = SampledBits[i + 1]
          /\ \A v \in 0..255 :
                (\A i \in 0..7 : SampledBits[i + 1] = BitOf(v, i)) => rv = v

C11_Witness ==
    /\ WireDone("ow_read_byte")
    /\ rv = 165
    /\ SampledBits = <<1, 0, 1, 0, 0, 1, 0, 1>>

-----------------------------------------------------------------------------
(* The device, as a persistent register store behind the bus.              *)

\* a reset: the device waits for a function command
DevReset(d) == [d EXCEPT !.sel = 0, !.idx = 0]

\* a byte written by the master
DevWrite(d, b) ==
    IF d.sel = 0
    THEN IF b = OW_CMD_SKIP_ROM THEN d ELSE [d EXCEPT !.sel = b]
    ELSE IF d.sel = DS1821_CMD_WRITE_STATUS THEN [d EXCEPT !.status = b, !.sel = -1]
    ELSE IF d.sel = DS1821_CMD_WRITE_TH THEN [d EXCEPT !.th = b, !.sel = -1]
    ELSE IF d.sel = DS1821_CMD_WRITE_TL THEN [d EXCEPT !.tl = b, !.sel = -1]
    ELSE d

\* the byte the master reads; nobody drives the line: all ones
DevRead(d) ==
    CASE d.sel = DS1821_CMD_READ_STATUS  -> d.status
      [] d.sel = DS1821_CMD_READ_TH      -> d.th
      [] d.sel = DS1821_CMD_READ_TL      -> d.tl
      [] d.sel = DS1821_CMD_READ_TEMP    -> d.temp
      [] d.sel = DS1821_CMD_READ_COUNTER -> d.counter
      [] d.sel = DS1821_CMD_READ_SLOPE   -> d.slope
      [] d.sel = OW_CMD_READ_ROM /\ d.idx < 8 -> d.rom[d.idx + 1]
      [] OTHER                           -> 255

DevAfterRead(d) ==
    IF d.sel = OW_CMD_READ_ROM THEN [d EXCEPT !.idx = d.idx + 1] ELSE d

DeviceProfiles ==
    { [NoDev EXCEPT !.status = 193, !.th = 30, !.tl = 20, !.temp = 23,
                    !.counter = 3, !.slope = 16,
                    !.rom = <<34, 1, 2, 3, 4, 5, 6, 21>>],
      [NoDev EXCEPT !.status = 2, !.th = 20, !.tl = 25, !.temp = 246,
                    !.counter = 20, !.slope = 0] }

-----------------------------------------------------------------------------
(* The program: calls of the transceiver are single steps here.            *)

Prog(fn) ==
    CASE fn = "main"                        -> main_body
      [] fn = "action_scan"                 -> action_scan
      [] fn = "action_probe"                -> action_probe
      [] fn = "action_read_temp"            -> action_read_temp
      [] fn = "action_status"               -> action_status
      [] fn = "action_set_thresholds"       -> action_set_thresholds
      [] fn = "action_set_oneshot"          -> action_set_oneshot
      [] fn = "power_cycle_ds1821"          -> power_cycle_ds1821
      [] fn = "persist_power_pin"           -> persist_power_pin
      [] fn = "read_tout"                   -> read_tout
      [] fn = "ow_read_rom"                 -> ow_read_rom
      [] fn = "ow_search_rom"               -> ow_search_rom
      [] fn = "ow_crc8"                     -> ow_crc8
      [] fn = "ds1821_read_status_reg"      -> ds1821_read_status_reg
      [] fn = "ds1821_write_status_reg"     -> ds1821_write_status_reg
      [] fn = "ds1821_write_status_skiprom" -> ds1821_write_status_skiprom
      [] fn = "ds1821_read_status_skiprom"  -> ds1821_read_status_skiprom
      [] fn = "ds1821_read_temperature"     -> ds1821_read_temperature
      [] fn = "ds1821_read_counter"         -> ds1821_read_counter
      [] fn = "ds1821_read_slope"           -> ds1821_read_slope
      [] fn = "ds1821_start_convert"        -> ds1821_start_convert
      [] fn = "ds1821_read_th"              -> ds1821_read_th
      [] fn = "ds1821_read_tl"              -> ds1821_read_tl
      [] fn = "ds1821_write_th"             -> ds1821_write_th
      [] fn = "ds1821_write_tl"             -> ds1821_write_tl

AtCall(fn) == Running /\ Ins.op \in {"call", "calln"} /\ Ins.a = fn

\* the argument of the call at hand
Arg == IF Ins.op = "calln" THEN Ins.b ELSE Eval(Ins.b)

\* every transceiver operation drives the data pin low and ends with
\* ow_release
AfterWire ==
    /\ pinMode' = [pinMode EXCEPT ![loc["gpio_pin"]] = PI_INPUT]
    /\ pinPull' = [pinPull EXCEPT ![loc["gpio_pin"]] = PI_PUD_UP]
    /\ pinLevel' = [pinLevel EXCEPT ![loc["gpio_pin"]] = 0]

FnCall ==
    /\ Running
    /\ Ins.op \in {"call", "calln"}
    /\ Ins.a \notin WireFns
    /\ stack' = <<[fn |-> Ins.a, k |-> Prog(Ins.a)],
                  [fn |-> Top.fn, k |-> Rest]>> \o Tail(stack)
    /\ loc' = IF Param(Ins.a) = "none" THEN loc
              ELSE [loc EXCEPT ![Param(Ins.a)] = Arg]
    /\ events' = <<>>
    /\ clock' = 0
    /\ hist' = HistCall(hist, Ins.a)
    /\ UNCHANGED <<rv, pinMode, pinPull, pinLevel, phase, argv, env, dev,
                   exit_code, srch>>

BusReset ==
    /\ AtCall("ow_reset")
    /\ \E presence \in {0, 1} :
          /\ rv' = presence
          /\ Log("ow_reset", loc["gpio_pin"], presence)
          /\ hist' = IF presence = 0 THEN HistResetFailed(hist) ELSE HistOp(hist)
    /\ clock' = clock + ResetUs
    /\ AfterWire
    /\ dev' = DevReset(dev)
    /\ Goto(Rest)
    /\ UNCHANGED <<loc, phase, argv, env, exit_code, srch>>

BusWriteByte ==
    /\ AtCall("ow_write_byte")
    /\ Log("ow_write_byte", loc["gpio_pin"], Arg)
    /\ hist' = HistOp(hist)
    /\ clock' = clock + ByteUs
    /\ AfterWire
    /\ dev' = DevWrite(dev, Arg)
    /\ Goto(Rest)
    /\ UNCHANGED <<loc, rv, phase, argv, env, exit_code, srch>>

BusReadByte ==
    /\ AtCall("ow_read_byte")
    /\ rv' = DevRead(dev)
    /\ Log("ow_read_byte", loc["gpio_pin"], DevRead(dev))
    /\ hist' = HistOp(hist)
    /\ clock' = clock + ByteUs
    /\ AfterWire
    /\ dev' = DevAfterRead(dev)
    /\ Goto(Rest)
    /\ UNCHANGED <<loc, phase, argv, env, exit_code, srch>>

\* The 64 bit positions of one search pass: the responses decide whether the
\* pass is cut short (done) and whether it leaves a discrepancy to explore.
SearchBits ==
    /\ At("search_bits")
    /\ \E d \in {0, 1}, nd \in {-1, 7} :
          /\ loc' = [loc EXCEPT !["done"] = d, !["new_discrepancy"] = nd]
          /\ Log("search_bits", loc["gpio_pin"], d)
    /\ hist' = HistOp(hist)
    /\ AfterWire
    /\ Goto(Rest)
    /\ UNCHANGED <<rv, clock, phase, argv, env, dev, exit_code, srch>>

\* crc = ow_crc8(code, 7)
Crc8Call ==
    /\ At("ow_crc8")
    /\ rv' = Crc8Upto(Eval(Ins.a), Ins.b)
    /\ Goto(Rest)
    /\ UNCHANGED <<loc, pinMode, pinPull, pinLevel, clock, events, phase, argv,
                   env, dev, exit_code, hist, srch>>

\* memcpy(roms[device_count], rom, 8)
MemcpyRoms ==
    /\ At("memcpy_roms")
    /\ LET at == loc["device_count"] + 1
           len == IF at > Len(loc["roms"]) THEN at ELSE Len(loc["roms"])
       IN  loc' = [loc EXCEPT !["roms"] =
                     [n \in 1..len |-> IF n = at THEN loc["srom"]
                                       ELSE loc["roms"][n]]]
    /\ Goto(Rest)
    /\ UNCHANGED <<rv, pinMode, pinPull, pinLevel, clock, events, phase, argv,
                   env, dev, exit_code, hist, srch>>

DoSetP ==
    /\ At("setp")
    /\ loc' = [loc EXCEPT ![loc[Ins.a]] = Eval(Ins.b)]
    /\ Goto(Rest)
    /\ UNCHANGED <<rv, pinMode, pinPull, pinLevel, clock, events, phase, argv,
                   env, dev, exit_code, hist, srch>>

DoUsleep ==
    /\ At("usleep")
    /\ clock' = clock + Ins.a
    /\ Log("usleep", -1, Ins.a)
    /\ Goto(Rest)
    /\ UNCHANGED <<loc, rv, pinMode, pinPull, pinLevel, phase, argv, env, dev,
                   exit_code, hist, srch>>

DoBreak ==
    /\ At("break")
    /\ Goto(AfterLoop(Rest))
    /\ UNCHANGED <<loc, rv, pinMode, pinPull, pinLevel, clock, events, phase,
                   argv, env, dev, exit_code, hist, srch>>

GpioInitialise ==
    /\ At("gpioInitialise")
    /\ rv' = IF env.init_ok THEN 0 ELSE -1
    /\ loc' = [loc EXCEPT !["gpio_up"] = IF env.init_ok THEN 1 ELSE 0,
                         !["gpio_inits"] = IF env.init_ok THEN @ + 1 ELSE @]
    /\ Goto(Rest)
    /\ UNCHANGED <<pinMode, pinPull, pinLevel, clock, events, phase, argv, env,
                   dev, exit_code, hist, srch>>

GpioTerminate ==
    /\ At("gpioTerminate")
    /\ loc' = [loc EXCEPT !["gpio_up"] = 0, !["gpio_downs"] = @ + 1]
    /\ Goto(Rest)
    /\ UNCHANGED <<rv, pinMode, pinPull, pinLevel, clock, events, phase, argv,
                   env, dev, exit_code, hist, srch>>

PinctrlOpDh ==
    /\ At("pinctrl_op_dh")
    /\ pinMode' = [pinMode EXCEPT ![loc[Ins.a]] = PI_OUTPUT]
    /\ pinLevel' = [pinLevel EXCEPT ![loc[Ins.a]] = 1]
    /\ Log("pinctrl_op_dh", loc[Ins.a], 1)
    /\ hist' = HistPin(hist, loc[Ins.a])
    /\ Goto(Rest)
    /\ UNCHANGED <<loc, rv, pinPull, clock, phase, argv, env, dev, exit_code,
                   srch>>

-----------------------------------------------------------------------------
(* main(): the argument loop.                                              *)

\* atoi of the words the command lines of the model use
Atoi(w) ==
    CASE w = "4" -> 4 [] w = "17" -> 17 [] w = "27" -> 27
      [] w = "20" -> 20 [] w = "30" -> 30 [] w = "35" -> 35
      [] w = "200" -> 200 [] w = "-60" -> -60
      [] OTHER -> 0

\* argv[i][0] == '-'
Dashed(w) ==
    w \in {"--gpio", "--power-gpio", "--read-tout", "--verbose", "-v",
           "--quick", "-q", "--help", "-h", "--bogus", "-60"}

RECURSIVE ParseArgs(_, _, _)
ParseArgs(av, n, st) ==
    IF n > Len(av) THEN st
    ELSE IF av[n] = "--gpio" /\ n + 1 <= Len(av)
    THEN ParseArgs(av, n + 2, [st EXCEPT !.gpio_pin = Atoi(av[n + 1])])
    ELSE IF av[n] = "--power-gpio" /\ n + 1 <= Len(av)
    THEN ParseArgs(av, n + 2, [st EXCEPT !.power_pin = Atoi(av[n + 1])])
    ELSE IF av[n] = "--read-tout"
    THEN ParseArgs(av, n + 1, [st EXCEPT !.read_tout_flag = 1])
    ELSE IF av[n] \in {"--verbose", "-v"}
    THEN ParseArgs(av, n + 1, [st EXCEPT !.verbose = 1])
    ELSE IF av[n] \in {"--quick", "-q"}
    THEN ParseArgs(av, n + 1, [st EXCEPT !.quiet = 1])
    ELSE IF av[n] \in {"--help", "-h"}
    THEN [st EXCEPT !.early_exit = 0]
    ELSE IF av[n] = "set-th" /\ n + 1 <= Len(av)
    THEN ParseArgs(av, n + 2, [st EXCEPT !.action = "set-th",
                                         !.arg_th = ToInt8(Atoi(av[n + 1])),
                                         !.has_th = 1])
    ELSE IF av[n] = "set-tl" /\ n + 1 <= Len(av)
    THEN ParseArgs(av, n + 2, [st EXCEPT !.action = "set-tl",
                                         !.arg_tl = ToInt8(Atoi(av[n + 1])),
                                         !.has_tl = 1])
    ELSE IF ~Dashed(av[n])
    THEN ParseArgs(av, n + 1, [st EXCEPT !.action = av[n]])
    ELSE [st EXCEPT !.early_exit = 1]

\* Command lines: options, then the action words.
OptionWords ==
    { g \o pw \o f :
        g \in {<<>>, <<"--gpio", "4">>},
        pw \in {<<>>, <<"--power-gpio", "27">>, <<"--power-gpio", "17">>},
        f \in {<<>>, <<"--read-tout">>, <<"--quick">>} }

ActionWords ==
    { <<>>, <<"scan">>, <<"probe">>, <<"temp">>, <<"status">>,
      <<"set-th", "30">>, <<"set-tl", "35">>, <<"set-th", "30", "set-tl", "20">>,
      <<"set-th", "200">>, <<"set-th">>, <<"set-oneshot">>, <<"fix">>,
      <<"bogus">> }

ArgvSet ==
    { o \o a : o \in OptionWords, a \in ActionWords }
    \cup { <<"--help">>, <<"--bogus", "probe">>, <<"probe", "--gpio">>,
           <<"-v", "probe">> }

MainParse ==
    /\ phase = "parse"
    /\ LET st == ParseArgs(argv, 1, LocInit)
       IN  /\ loc' = st
           /\ IF st.early_exit >= 0
              THEN /\ exit_code' = st.early_exit
                   /\ phase' = "exit"
                   /\ stack' = <<>>
              ELSE /\ exit_code' = exit_code
                   /\ phase' = "run"
                   /\ stack' = <<[fn |-> "main", k |-> main_body]>>
    /\ UNCHANGED <<rv, pinMode, pinPull, pinLevel, clock, events, argv, env,
                   dev, hist, srch>>

MainExit ==
    /\ phase = "run"
    /\ stack = <<>>
    /\ exit_code' = rv
    /\ phase' = "exit"
    /\ UNCHANGED <<stack, loc, rv, pinMode, pinPull, pinLevel, clock, events,
                   argv, env, dev, hist, srch>>

Init ==
    /\ argv \in ArgvSet
    /\ env \in { [root |-> TRUE, init_ok |-> TRUE],
                 [root |-> FALSE, init_ok |-> TRUE],
                 [root |-> TRUE, init_ok |-> FALSE] }
    /\ dev \in DeviceProfiles
    /\ phase = "parse"
    /\ stack = <<>>
    /\ loc = LocInit
    /\ rv = 0
    /\ pinMode = NoPins
    /\ pinPull = NoPins
    /\ pinLevel = NoPins
    /\ clock = 0
    /\ events = <<>>
    /\ exit_code = -1
    /\ hist = NoHist
    /\ srch = NoSearch

Next ==
    \/ MainParse
    \/ MainExit
    \/ FnCall
    \/ BusReset
    \/ BusWriteByte
    \/ BusReadByte
    \/ SearchBits
    \/ MemcpyRoms
    \/ Crc8Call
    \/ GpioSetMode
    \/ GpioSetPullUpDown
    \/ GpioWrite
    \/ GpioRead
    \/ GpioDelay
    \/ GpioInitialise
    \/ GpioTerminate
    \/ PinctrlOpDh
    \/ DoUsleep
    \/ DoSet
    \/ DoSetV
    \/ DoSetP
    \/ DoIf
    \/ DoWhile
    \/ DoBreak
    \/ DoReturn
    \/ DoReturnV

Spec == Init /\ [][Next]_vars

-----------------------------------------------------------------------------
(* Properties of the program.                                              *)

DeviceCmds ==
    {"ds1821_read_status_reg", "ds1821_write_status_reg",
     "ds1821_write_status_skiprom", "ds1821_read_status_skiprom",
     "ds1821_read_temperature", "ds1821_read_counter", "ds1821_read_slope",
     "ds1821_start_convert", "ds1821_read_th", "ds1821_read_tl",
     "ds1821_write_th", "ds1821_write_tl"}

InCmd == Running /\ Top.fn \in DeviceCmds
InAction == \E n \in 1..Len(stack) : stack[n].fn \in ActionFns
ActionReturns == Running /\ Top.fn \in ActionFns /\ Ins.op = "return"
Exited == phase = "exit"

\* the dispatch chain of main() reaches an action
Recognised ==
    \/ loc["action"] \in {"scan", "probe", "status", "temp", "set-oneshot", "fix"}
    \/ loc["has_th"] = 1
    \/ loc["has_tl"] = 1

RunFailed ==
    \/ loc["early_exit"] = 1
    \/ /\ loc["early_exit"] = -1
       /\ \/ loc["action"] = "NULL"
          \/ ~env.root
          \/ ~env.init_ok
          \/ ~Recognised
          \/ loc["ret"] < 0

\* C3: the exit code is 1 exactly when the run failed or the command line was
\* a usage error (no action, unknown option, unrecognised action, failed
\* action), and 0 otherwise.
C3_ExitCode ==
    Exited => /\ exit_code \in {0, 1}
              /\ (exit_code = 1) <=> RunFailed

\* C4: a device command starts with a reset, and when the reset finds no
\* presence the command has done nothing else (no byte written or read, no
\* wait) and is about to return -1.
C4_NoPresenceNoActivity ==
    InCmd =>
        /\ events = <<>> => AtCall("ow_reset")
        /\ events # <<>> => events[1][1] = "ow_reset"
        /\ (events # <<>> /\ events[1][3] = 0) =>
              /\ Len(events) = 1
              /\ clock = 960
              /\ \/ Ins = Return(-1)
                 \/ /\ Ins.op = "if"
                    /\ Cond(Ins.a)
                    /\ Ins.b[1] = << Return(-1) >>

C4_Witness ==
    /\ InCmd
    /\ Top.fn = "ds1821_write_th"
    /\ Ins = Return(-1)
    /\ Len(events) = 1
    /\ events[1][3] = 0

\* C5 as stated: in an action, once a reset has found no presence nothing
\* more happens on the bus, nothing is retried and the action returns failure.
C5_ActionAbortsOnFailedReset ==
    InAction =>
        /\ hist.after = 0
        /\ hist.retry = 0
        /\ (ActionReturns /\ hist.failed = 1) => Ins.a < 0

\* C5 amended: a failed reset ends the device command it belongs to at once
\* and the command is not called again; an action returns failure only right
\* after a failed reset, always does so when its first bus operation is a
\* failed reset, and temp and set-th/set-tl do so on every failed reset.
C5_FailedResetPropagation ==
    InAction =>
        /\ hist.retry = 0
        /\ Top.fn \in ActionFns => Ins.op # "returnv"
        /\ (/\ Top.fn \in DeviceCmds \cup {"ow_read_rom"}
            /\ events # <<>>
            /\ events[Len(events)][1] = "ow_reset"
            /\ events[Len(events)][3] = 0) =>
              (hist.last = 1 /\ Ins.op \in {"if", "return"})
        /\ (ActionReturns /\ Ins.a < 0) => hist.last = 1
        /\ (ActionReturns /\ hist.first = 1) => (Ins.a = -1 /\ hist.after = 0)
        /\ (ActionReturns /\ hist.failed = 1
              /\ Top.fn \in {"action_read_temp", "action_set_thresholds"}) =>
              (Ins.a = -1 /\ hist.after = 0)

C5_Witness ==
    /\ ActionReturns
    /\ Top.fn = "action_set_thresholds"
    /\ hist.failed = 1
    /\ hist.first = 0
    /\ Ins.a = -1

\* C6: the data pin is never driven high: no 1 is written to it, and while it
\* is an output the level written to it is not 1.
C6_DataNeverDrivenHigh ==
    phase # "parse" =>
        /\ pinLevel[loc["gpio_pin"]] # 1
        /\ pinMode[loc["gpio_pin"]] = PI_OUTPUT => pinLevel[loc["gpio_pin"]] # 1

\* C7: whenever an action is between protocol operations or returns, and when
\* main() calls an action after the startup release, the data pin is an input
\* with its pull-up enabled.
C7_IdleReleased ==
    (/\ Running
     /\ \/ Top.fn \in ActionFns /\ Ins.op \in {"call", "calln", "return"}
        \/ Top.fn = "main" /\ Ins.op = "call" /\ Ins.a \in ActionFns) =>
        Released(loc["gpio_pin"])

\* C15: when the device reports counts per degree 0, what temp and status
\* print differs from what they print for the same sample with counts per
\* degree 1.
C15_ZeroSlopeFlagged ==
    (/\ ActionReturns
     /\ Top.fn \in {"action_read_temp", "action_status"}
     /\ Ins.a = 0
     /\ loc["count_per_c"] = 0) =>
        Printed(Top.fn, loc) # Printed(Top.fn, [loc EXCEPT !["count_per_c"] = 1])

\* a byte on the wire read as a signed value
Signed(b) == IF b >= 128 THEN b - 256 ELSE b

\* C16: the threshold byte sent after a Write TH or Write TL command is a
\* signed value within -55..125.
C16_ThresholdInRange ==
    (/\ InCmd
     /\ Top.fn \in {"ds1821_write_th", "ds1821_write_tl"}
     /\ Len(events) >= 3) =>
        /\ events[2][1] = "ow_write_byte"
        /\ events[3][1] = "ow_write_byte"
        /\ Signed(events[3][3]) >= -55
        /\ Signed(events[3][3]) <= 125

InSetThresholds == Running /\ Top.fn = "action_set_thresholds"

\* C17: set-th / set-tl against the device as a persistent store: TH and TL
\* are read, only the requested thresholds are written (TH before TL), both
\* are read again, each written threshold reads back as written, and a
\* re-read low >= high gives the warning together with a successful return.
C17_ThresholdsVerified ==
    InSetThresholds =>
        /\ AtCall("ds1821_read_th") =>
              hist.lastfn \in {"none", "ds1821_read_tl", "ds1821_write_th",
                               "ds1821_write_tl"}
        /\ AtCall("ds1821_read_tl") => hist.lastfn = "ds1821_read_th"
        /\ AtCall("ds1821_write_th") =>
              (loc["set_th"] # 0 /\ hist.lastfn = "ds1821_read_tl")
        /\ AtCall("ds1821_write_tl") =>
              /\ loc["set_tl"] # 0
              /\ hist.lastfn = IF loc["set_th"] # 0 THEN "ds1821_write_th"
                               ELSE "ds1821_read_tl"
        /\ Ins = Return(-1) => hist.last = 1
        /\ Ins = Return(0) =>
              /\ hist.lastfn = "ds1821_read_tl"
              /\ hist.failed = 0
              /\ loc["cur_th"] = Signed(dev.th)
              /\ loc["cur_tl"] = Signed(dev.tl)
              /\ loc["set_th"] # 0 => loc["cur_th"] = loc["new_th"]
              /\ loc["set_tl"] # 0 => loc["cur_tl"] = loc["new_tl"]
              /\ loc["warned"] = IF loc["cur_tl"] >= loc["cur_th"] THEN 1 ELSE 0

\* set-tl 35 with the device's TH at 30: warning, success
C17_Witness ==
    /\ InSetThresholds
    /\ Ins = Return(0)
    /\ loc["set_tl"] # 0
    /\ loc["set_th"] = 0
    /\ loc["cur_tl"] = 35
    /\ loc["cur_th"] = 30
    /\ loc["warned"] = 1

\* the calls of the mode-switch sequence, in order
ModeSwitchCalls ==
    << "ds1821_read_status_reg",
       "ds1821_write_status_reg", "ds1821_read_status_reg",
       "ds1821_write_status_skiprom", "ds1821_read_status_skiprom",
       "ds1821_write_status_reg", "ds1821_read_status_reg",
       "ds1821_read_status_skiprom" >>

IsPrefix(p, q) == Len(p) <= Len(q) /\ p = SubSeq(q, 1, Len(p))

InSetOneshot ==
    \E n \in 1..Len(stack) : stack[n].fn = "action_set_oneshot"

WriteCmds ==
    {"ds1821_write_status_reg", "ds1821_write_status_skiprom",
     "ds1821_write_th", "ds1821_write_tl"}

\* the events of the running command from the n-th on
EventsFrom(n) == SubSeq(events, n, Len(events))

\* number of bytes a write command sends
WriteLen(fn) == IF fn = "ds1821_write_status_skiprom" THEN 3 ELSE 2

\* C19: a status or threshold write releases the line right after its last
\* byte and then waits a fixed interval of at least 100 ms, reading nothing,
\* before it returns; nothing else happens on the bus in between.
C19_CommitWait ==
    (InCmd /\ Top.fn \in WriteCmds) =>
        LET pin == loc["gpio_pin"]
            n == 1 + WriteLen(Top.fn)
            tail == << <<"gpioSetMode", pin, PI_INPUT>>,
                       <<"gpioSetPullUpDown", pin, PI_PUD_UP>>,
                       <<"usleep", -1, 200000>> >>
        IN  /\ \A m \in 1..Len(events) :
                  /\ events[m][1] # "ow_read_byte"
                  /\ (m >= 2 /\ m <= n) => events[m][1] = "ow_write_byte"
                  /\ m > n => /\ m - n <= 3
                              /\ <<events[m][1], events[m][2], events[m][3]>>
                                    = tail[m - n]
            /\ Ins = Return(0) =>
                  /\ Len(events) = n + 3
                  /\ events[n + 3][3] >= 100000
                  /\ clock >= events[n][4] + ByteUs + 100000
                  /\ Released(pin)

C19_Witness ==
    /\ InCmd
    /\ Top.fn = "ds1821_write_status_skiprom"
    /\ Ins = Return(0)
    /\ Len(events) = 7
    /\ clock >= 200000

FixSteps == <<"action_probe", "action_set_oneshot", "power_cycle_ds1821">>

\* what power_cycle_ds1821 does to the pins, in order
PowerCycleEvents ==
    LET pin == loc["power_pin"]
    IN  << <<"gpioSetMode", pin, PI_OUTPUT>>, <<"gpioWrite", pin, 0>>,
           <<"usleep", -1, 500000>>, <<"gpioWrite", pin, 1>>,
           <<"usleep", -1, 500000>> >>

InPowerCycle == Running /\ Top.fn = "power_cycle_ds1821"

\* the steps of fix and the order of the power cycle
FixOrder ==
    /\ IsPrefix(hist.acts, FixSteps)
    /\ (Top.fn = "main" /\ AtCall("action_set_oneshot")) =>
          (hist.acts = <<"action_probe">> /\ loc["ret"] = 0)
    /\ (Top.fn = "main" /\ AtCall("power_cycle_ds1821")) =>
          (hist.acts = <<"action_probe", "action_set_oneshot">> /\ loc["ret"] = 0)
    /\ InPowerCycle =>
          /\ hist.acts = FixSteps
          /\ IsPrefix([n \in 1..Len(events) |->
                         <<events[n][1], events[n][2], events[n][3]>>],
                      PowerCycleEvents)
          /\ loc["power_pin"] < 0 =>
                (events = <<>> /\ (Ins.op = "return" => Ins.a = -1))
          /\ Ins = Return(-1) => (loc["power_pin"] < 0 /\ events = <<>>)
          /\ Ins = Return(0) => (loc["power_pin"] >= 0 /\ Len(events) = 5)

\* C20 as stated: fix runs probe, the mode switch and the power cycle, each
\* after the previous one succeeded; the power cycle drives the power pin
\* low, waits, drives it high, waits; without a power pin it touches no pin
\* and tells the operator to cycle the power by hand.
C20_FixSequence ==
    (phase = "run" /\ Running /\ loc["do_fix"] # 0) =>
        /\ FixOrder
        /\ (InPowerCycle /\ Ins = Return(-1)) => loc["instructed"] = 1

\* C20 amended: as above, but the operator is told only when --quick is not
\* given; with --quick the step fails without a message.
C20_FixSequenceUnlessQuiet ==
    (phase = "run" /\ Running /\ loc["do_fix"] # 0) =>
        /\ FixOrder
        /\ (InPowerCycle /\ Ins = Return(-1)) =>
              loc["instructed"] = (IF loc["quiet"] = 0 THEN 1 ELSE 0)

C20_Witness ==
    /\ InPowerCycle
    /\ Ins = Return(0)
    /\ loc["do_fix"] # 0
    /\ Len(events) = 5
    /\ pinLevel[loc["power_pin"]] = 1

\* the next step is a call into the GPIO library: one of its functions, or a
\* transceiver operation, which is made of them
AtGpioCall ==
    /\ Running
    /\ \/ Ins.op \in {"gpioSetMode", "gpioSetPullUpDown", "gpioWrite",
                      "gpioRead", "gpioDelay", "search_bits"}
       \/ Ins.op \in {"call", "calln"} /\ Ins.a \in WireFns

\* C24: every call into the GPIO library is made between a successful
\* gpioInitialise() and gpioTerminate(); gpioTerminate() is called only after
\* a successful gpioInitialise(), at most once, and exactly once by the time
\* the process exits if the initialisation succeeded.
C24_GpioBracket ==
    /\ AtGpioCall => (loc["gpio_up"] = 1 /\ loc["gpio_downs"] = 0)
    /\ loc["gpio_inits"] <= 1
    /\ loc["gpio_downs"] <= loc["gpio_inits"]
    /\ loc["gpio_up"] = loc["gpio_inits"] - loc["gpio_downs"]
    /\ Exited => loc["gpio_downs"] = loc["gpio_inits"]

\* an unknown action: initialised, nothing done, torn down, exit
C24_Witness ==
    /\ Exited
    /\ loc["action"] = "bogus"
    /\ loc["gpio_inits"] = 1
    /\ loc["gpio_downs"] = 1

\* an action that failed: torn down all the same
C24_WitnessFailed ==
    /\ Exited
    /\ exit_code = 1
    /\ hist.failed = 1
    /\ loc["gpio_inits"] = 1
    /\ loc["gpio_downs"] = 1

\* the next step works on the data line: a GPIO call on the data pin or a
\* transceiver operation
AtDataOp ==
    /\ Running
    /\ \/ /\ Ins.op \in {"gpioSetMode", "gpioSetPullUpDown", "gpioWrite",
                         "gpioRead"}
          /\ Ins.a = "gpio_pin"
       \/ Ins.op = "search_bits"
       \/ Ins.op \in {"call", "calln"} /\ Ins.a \in WireFns

\* the power pin is an output driving 1
PowerHigh ==
    /\ pinMode[loc["power_pin"]] = PI_OUTPUT
    /\ pinLevel[loc["power_pin"]] = 1

\* between gpioWrite(power_pin, 0) and gpioWrite(power_pin, 1) of the power
\* cycle
Discharging ==
    /\ InPowerCycle
    /\ Ins \in {Usleep(500000), Write("power_pin", 1)}
    /\ pinLevel[loc["power_pin"]] = 0

PowerPinRule ==
    /\ AtDataOp => PowerHigh
    /\ ActionReturns => PowerHigh
    /\ pinLevel[loc["power_pin"]] = 0 => (Discharging /\ ~AtDataOp)

\* C31: with a power pin configured, the pin is driving high at every
\* operation on the data line, the first one included, and when an action
\* returns; it is low only between the two writes of the power cycle, where
\* no data-line operation is made.
C31_PowerPinHigh ==
    (phase = "run" /\ loc["power_pin"] >= 0) => PowerPinRule

\* the same for a power pin that is not the data pin
C31_PowerPinHighDistinct ==
    (phase = "run" /\ loc["power_pin"] >= 0
       /\ loc["power_pin"] # loc["gpio_pin"]) => PowerPinRule

\* the power cycle at its low point, with a pin of its own
C31_WitnessDistinct ==
    /\ phase = "run"
    /\ loc["power_pin"] = 27
    /\ loc["gpio_pin"] = 17
    /\ Discharging

\* a run as root with a working GPIO library, no power pin, and a device
\* that answered every reset
ResponsiveNoPowerPin ==
    /\ phase \in {"run", "exit"}
    /\ env.root /\ env.init_ok
    /\ loc["power_pin"] < 0
    /\ hist.absent = 0

\* C32: with no power pin and a device that answers every reset, fix runs
\* the probe and the mode switch with its three writes to the end, then
\* power_cycle_ds1821 returns -1 without a GPIO call and the process exits
\* with 1; set-oneshot on the same bus stops after the mode switch and
\* exits with 0.
C32_FixWithoutPowerPin ==
    ResponsiveNoPowerPin =>
        /\ (InPowerCycle /\ hist.acts = FixSteps) =>
              /\ hist.calls = ModeSwitchCalls
              /\ dev.status = DS1821_STATUS_1SHOT
              /\ events = <<>>
              /\ Ins.op \in {"if", "set", "return"}
              /\ Ins.op = "return" => Ins.a = -1
        /\ (Exited /\ loc["action"] = "fix") =>
              /\ hist.acts = FixSteps
              /\ IsPrefix(ModeSwitchCalls, hist.calls)
              /\ loc["ret"] = -1
              /\ exit_code = 1
        /\ (Exited /\ loc["action"] = "set-oneshot") =>
              /\ hist.acts = <<"action_probe", "action_set_oneshot">>
              /\ IsPrefix(ModeSwitchCalls, hist.calls)
              /\ loc["ret"] = 0
              /\ exit_code = 0

\* fix came to its end: device switched, exit code 1
C32_Witness ==
    /\ ResponsiveNoPowerPin
    /\ Exited
    /\ loc["action"] = "fix"
    /\ hist.acts = FixSteps
    /\ IsPrefix(ModeSwitchCalls, hist.calls)
    /\ dev.status = DS1821_STATUS_1SHOT
    /\ exit_code = 1

\* set-oneshot on the same bus: exit code 0
C32_WitnessSetOneshot ==
    /\ ResponsiveNoPowerPin
    /\ Exited
    /\ loc["action"] = "set-oneshot"
    /\ dev.status = DS1821_STATUS_1SHOT
    /\ exit_code = 0

-----------------------------------------------------------------------------
(* SpecSearch: ow_search_rom against a simulated bus.  Every device on the *)
(* bus answers each bit position with its bit and the complement (the line *)
(* is a wired AND) and drops out of the pass when the direction written    *)
(* back differs from its bit.  The 64 bit positions run one at a time.     *)

MaxBusDevices == 3
MaxDevicesArg == 3

BaseCode == <<34, 1, 2, 3, 4, 5, 6, 21>>

\* bit positions where the codes of the crowded buses differ
FreeBits == {0, 9, 63}

CodeBit(code, bit_pos) == BitOf(code[(bit_pos \div 8) + 1], bit_pos % 8)

FlipBit(code, bit_pos) == SetRomBit(code, bit_pos, 1 - CodeBit(code, bit_pos))

RECURSIVE FlipBits(_, _)
FlipBits(code, ps) ==
    IF ps = {} THEN code
    ELSE LET q == CHOOSE x \in ps : TRUE
         IN  FlipBits(FlipBit(code, q), ps \ {q})

FamilyCodes == { FlipBits(BaseCode, ps) : ps \in SUBSET FreeBits }

\* two codes that differ in exactly one bit, for every bit position
PairBuses == { {BaseCode, FlipBit(BaseCode, k)} : k \in 0..63 }

BusSets ==
    { ds \in SUBSET FamilyCodes : Cardinality(ds) <= MaxBusDevices }
    \cup PairBuses

SearchInit ==
    /\ \E ds \in BusSets, m \in 1..MaxDevicesArg :
          /\ srch = [devs |-> ds, active |-> {}]
          /\ loc = [LocInit EXCEPT !["max_devices"] = m]
          /\ argv = <<m>>
    /\ stack = <<[fn |-> "ow_search_rom", k |-> ow_search_rom]>>
    /\ phase = "ow_search_rom"
    /\ rv = 0
    /\ pinMode = IdleMode(DEFAULT_GPIO_PIN)
    /\ pinPull = IdlePull(DEFAULT_GPIO_PIN)
    /\ pinLevel = NoPins
    /\ clock = 0
    /\ events = <<>>
    /\ env = [root |-> TRUE, init_ok |-> TRUE]
    /\ dev = NoDev
    /\ exit_code = -1
    /\ hist = NoHist

\* ow_reset() on the simulated bus: the devices answer, and all of them take
\* part in what follows.
SearchReset ==
    /\ AtCall("ow_reset")
    /\ rv' = IF srch.devs = {} THEN 0 ELSE 1
    /\ srch' = [srch EXCEPT !.active = srch.devs]
    /\ clock' = clock + ResetUs
    /\ Goto(Rest)
    /\ UNCHANGED <<loc, pinMode, pinPull, pinLevel, events, phase, argv, env,
                   dev, exit_code, hist>>

\* ow_write_byte(OW_CMD_SEARCH_ROM)
SearchCommand ==
    /\ AtCall("ow_write_byte")
    /\ Arg = OW_CMD_SEARCH_ROM
    /\ clock' = clock + ByteUs
    /\ Goto(Rest)
    /\ UNCHANGED <<loc, rv, pinMode, pinPull, pinLevel, events, phase, argv,
                   env, dev, exit_code, hist, srch>>

\* what the two read slots of a bit position return
BusIdBit(active, bit_pos) ==
    IF \E d \in active : CodeBit(d, bit_pos) = 0 THEN 0 ELSE 1
BusCmpBit(active, bit_pos) ==
    IF \E d \in active : CodeBit(d, bit_pos) = 1 THEN 0 ELSE 1

\* One turn of the loop over the bit positions.
SearchBit ==
    /\ At("search_bits")
    /\ LET bit_pos == loc["bit_pos"]
           id_bit == BusIdBit(srch.active, bit_pos)
           cmp_bit == BusCmpBit(srch.active, bit_pos)
           dir == SearchDir(id_bit, cmp_bit, bit_pos,
                            loc["last_discrepancy"], loc["srom"])
           nd == SearchNewDiscrepancy(id_bit, cmp_bit, bit_pos,
                                      loc["last_discrepancy"], loc["srom"],
                                      loc["new_discrepancy"])
       IN  IF id_bit = 1 /\ cmp_bit = 1
           THEN /\ loc' = [loc EXCEPT !["done"] = 1]
                /\ clock' = clock + 2 * SlotUs
                /\ Goto(Rest)
                /\ UNCHANGED srch
           ELSE /\ loc' = [loc EXCEPT !["srom"] = SetRomBit(@, bit_pos, dir),
                                      !["new_discrepancy"] = nd,
                                      !["bit_pos"] = bit_pos + 1]
                /\ srch' = [srch EXCEPT !.active =
                              {d \in @ : CodeBit(d, bit_pos) = dir}]
                /\ clock' = clock + 3 * SlotUs
                /\ IF bit_pos + 1 < 64 THEN UNCHANGED stack ELSE Goto(Rest)
    /\ UNCHANGED <<rv, pinMode, pinPull, pinLevel, events, phase, argv, env,
                   dev, exit_code, hist>>

SearchNext ==
    \/ SearchReset
    \/ SearchCommand
    \/ SearchBit
    \/ MemcpyRoms
    \/ DoSet
    \/ DoSetV
    \/ DoIf
    \/ DoWhile
    \/ DoBreak
    \/ DoReturnV

\* ow_search_rom() is straight-line code on one thread: it keeps running.
SpecSearch == SearchInit /\ [][SearchNext]_vars /\ WF_vars(SearchNext)

SearchDone == WireDone("ow_search_rom")

\* the codes ow_search_rom() handed back, in order
Found == [n \in 1..rv |-> loc["roms"][n]]

BusFits ==
    /\ phase = "ow_search_rom"
    /\ Cardinality(srch.devs) >= 1
    /\ Cardinality(srch.devs) <= loc["max_devices"]

FoundAll ==
    /\ rv = Cardinality(srch.devs)
    /\ Len(loc["roms"]) = rv
    /\ {Found[n] : n \in 1..rv} = srch.devs

\* C1: on a bus of N distinct codes, 1 <= N <= max_devices, ow_search_rom
\* returns, and what it returns is those N codes, each once.
C1_DiscoveryComplete == BusFits ~> (SearchDone /\ FoundAll)

C1_Witness ==
    /\ SearchDone
    /\ Cardinality(srch.devs) = 3
    /\ loc["max_devices"] = 3
    /\ FoundAll

\* the bit position where the two codes of a bus differ, -1 when the bus is
\* not a pair of codes differing in one bit
PairBit ==
    IF \E k \in 0..63 : \E c \in srch.devs : srch.devs = {c, FlipBit(c, k)}
    THEN CHOOSE k \in 0..63 : \E c \in srch.devs : srch.devs = {c, FlipBit(c, k)}
    ELSE -1

\* C2: when the two codes on the bus differ only at bit k, the first code
\* returned has bit k = 0 and the second, if one is returned, bit k = 1.
C2_TieBreak ==
    (SearchDone /\ PairBit >= 0) =>
        /\ rv >= 1
        /\ CodeBit(Found[1], PairBit) = 0
        /\ loc["max_devices"] >= 2 => rv = 2
        /\ rv >= 2 => CodeBit(Found[2], PairBit) = 1

C2_Witness ==
    /\ SearchDone
    /\ PairBit = 63
    /\ rv = 2
    /\ CodeBit(Found[2], 63) = 1

\* the first bit position, counted from 0, where two codes differ (64: none)
FirstDiff(c, d) ==
    IF c = d THEN 64
    ELSE CHOOSE k \in 0..63 :
            /\ CodeBit(c, k) # CodeBit(d, k)
            /\ \A q \in 0..(k - 1) : CodeBit(c, q) = CodeBit(d, q)

MinOf(a, b) == IF a < b THEN a ELSE b

\* C29: on a bus of N >= 1 distinct codes ow_search_rom returns
\* min(N, max_devices) codes, all of them on the bus, and each one has 0
\* where it first differs from the one returned after it (so no two are
\* equal).
C29_OrderAndCap ==
    (SearchDone /\ Cardinality(srch.devs) >= 1) =>
        /\ rv = MinOf(Cardinality(srch.devs), loc["max_devices"])
        /\ Len(loc["roms"]) = rv
        /\ \A n \in 1..rv : Found[n] \in srch.devs
        /\ \A n \in 1..rv : \A q \in 1..rv :
              n < q => /\ FirstDiff(Found[n], Found[q]) < 64
                       /\ CodeBit(Found[n], FirstDiff(Found[n], Found[q])) = 0

\* more codes on the bus than the cap: the first two in order come back
C29_Witness ==
    /\ SearchDone
    /\ Cardinality(srch.devs) = 3
    /\ loc["max_devices"] = 2
    /\ rv = 2
    /\ FirstDiff(Found[1], Found[2]) = 9

-----------------------------------------------------------------------------
(* SpecSearchAny: ow_search_rom against a bus that answers anything.  Each *)
(* reset finds presence or not, and at the bit positions of AnyBits the    *)
(* two read slots return any of the four pairs; elsewhere they return the  *)
(* bit of BaseCode and its complement.  srch keeps what the bus saw.       *)

MaxPasses == 3

AnyBits == {0, 9, 63}

\* the pairs <<id_bit, cmp_bit>> the two read slots of a position can return
AnyResponses(bit_pos) ==
    IF bit_pos \in AnyBits THEN {<<0, 0>>, <<0, 1>>, <<1, 0>>, <<1, 1>>}
    ELSE {<<CodeBit(BaseCode, bit_pos), 1 - CodeBit(BaseCode, bit_pos)>>}

\* passes: search commands sent; full: passes that went through all 64
\* positions; nopres: a reset found no presence; aborted: a position read
\* 1,1; kept: the codes recorded when it did; step: the latest bit position handled, with the bits read, the
\* bit written back and the discrepancy variables as the position found them
NoStep == [pos |-> -1, id |-> -1, cmp |-> -1, wrote |-> -1, ld |-> -1,
           nd |-> -1]

AnySearch ==
    [passes |-> 0, full |-> 0, nopres |-> 0, aborted |-> 0, kept |-> <<>>,
     step |-> NoStep]

SearchAnyInit ==
    /\ \E m \in 1..MaxPasses :
          /\ loc = [LocInit EXCEPT !["max_devices"] = m]
          /\ argv = <<m>>
    /\ srch = AnySearch
    /\ stack = <<[fn |-> "ow_search_rom", k |-> ow_search_rom]>>
    /\ phase = "ow_search_rom"
    /\ rv = 0
    /\ pinMode = IdleMode(DEFAULT_GPIO_PIN)
    /\ pinPull = IdlePull(DEFAULT_GPIO_PIN)
    /\ pinLevel = NoPins
    /\ clock = 0
    /\ events = <<>>
    /\ env = [root |-> TRUE, init_ok |-> TRUE]
    /\ dev = NoDev
    /\ exit_code = -1
    /\ hist = NoHist

\* ow_reset(): presence or none, as the bus pleases
SearchAnyReset ==
    /\ AtCall("ow_reset")
    /\ \E presence \in {0, 1} :
          /\ rv' = presence
          /\ srch' = [srch EXCEPT !.nopres = 1 - presence]
    /\ Goto(Rest)
    /\ UNCHANGED <<loc, pinMode, pinPull, pinLevel, clock, events, phase, argv,
                   env, dev, exit_code, hist>>

\* ow_write_byte(OW_CMD_SEARCH_ROM): a pass begins
SearchAnyCommand ==
    /\ AtCall("ow_write_byte")
    /\ Arg = OW_CMD_SEARCH_ROM
    /\ srch' = [srch EXCEPT !.passes = IF @ > MaxPasses THEN @ ELSE @ + 1,
                            !.step = NoStep]
    /\ Goto(Rest)
    /\ UNCHANGED <<loc, rv, pinMode, pinPull, pinLevel, clock, events, phase,
                   argv, env, dev, exit_code, hist>>

\* One turn of the loop over the bit positions.
SearchAnyBit ==
    /\ At("search_bits")
    /\ \E r \in AnyResponses(loc["bit_pos"]) :
        LET bit_pos == loc["bit_pos"]
            id_bit == r[1]
            cmp_bit == r[2]
            dir == SearchDir(id_bit, cmp_bit, bit_pos,
                             loc["last_discrepancy"], loc["srom"])
            nd == SearchNewDiscrepancy(id_bit, cmp_bit, bit_pos,
                                       loc["last_discrepancy"], loc["srom"],
                                       loc["new_discrepancy"])
            seen == [pos |-> bit_pos, id |-> id_bit, cmp |-> cmp_bit,
                     wrote |-> -1, ld |-> loc["last_discrepancy"],
                     nd |-> loc["new_discrepancy"]]
        IN  IF id_bit = 1 /\ cmp_bit = 1
            THEN /\ loc' = [loc EXCEPT !["done"] = 1]
                 /\ srch' = [srch EXCEPT !.aborted = 1, !.kept = loc["roms"],
                                         !.step = seen]
                 /\ Goto(Rest)
            ELSE /\ loc' = [loc EXCEPT !["srom"] = SetRomBit(@, bit_pos, dir),
                                       !["new_discrepancy"] = nd,
                                       !["bit_pos"] = bit_pos + 1]
                 /\ srch' = [srch EXCEPT
                               !.step = [seen EXCEPT !.wrote = dir],
                               !.full = IF bit_pos + 1 < 64 THEN @ ELSE @ + 1]
                 /\ IF bit_pos + 1 < 64 THEN UNCHANGED stack ELSE Goto(Rest)
    /\ UNCHANGED <<rv, pinMode, pinPull, pinLevel, clock, events, phase, argv,
                   env, dev, exit_code, hist>>

SearchAnyNext ==
    \/ SearchAnyReset
    \/ SearchAnyCommand
    \/ SearchAnyBit
    \/ MemcpyRoms
    \/ DoSet
    \/ DoSetV
    \/ DoIf
    \/ DoWhile
    \/ DoBreak
    \/ DoReturnV

\* ow_search_rom() is straight-line code on one thread: it keeps running.
SpecSearchAny ==
    SearchAnyInit /\ [][SearchAnyNext]_vars /\ WF_vars(SearchAnyNext)

\* the loop of ow_search_rom() is about to reset the bus for another pass
PassStarting == phase = "ow_search_rom" /\ AtCall("ow_reset")

\* C26: whatever the bus answers, ow_search_rom returns; it sends at most
\* max_devices search commands, a pass handles at most 64 bit positions, a
\* pass starts only while the search is not done, the cap is not reached and
\* no reset has failed, and when it returns one of the three has happened.
C26_SearchTerminates ==
    /\ <>SearchDone
    /\ [](/\ srch.passes <= loc["max_devices"]
          /\ loc["bit_pos"] <= 64
          /\ At("search_bits") => loc["bit_pos"] < 64
          /\ PassStarting =>
                /\ loc["done"] = 0
                /\ loc["device_count"] < loc["max_devices"]
                /\ srch.nopres = 0
          /\ SearchDone =>
                \/ loc["done"] = 1
                \/ loc["device_count"] >= loc["max_devices"]
                \/ srch.nopres = 1)

\* the cap ends a search that the bus would have kept going
C26_Witness ==
    /\ SearchDone
    /\ srch.passes = MaxPasses
    /\ loc["max_devices"] = MaxPasses
    /\ loc["done"] = 0
    /\ srch.nopres = 0
    /\ loc["last_discrepancy"] >= 0

\* the code the pass before the one of srch.step recorded
PrevCode ==
    LET n == IF srch.step.pos = 63 THEN srch.full - 1 ELSE srch.full
    IN  IF n >= 1 THEN loc["roms"][n] ELSE ZeroRom

\* C27: at a bit position that read 0,0 the bit written back is 1 when the
\* position is the last discrepancy (nothing recorded), 0 when it lies beyond
\* it (the position is recorded), and below it the bit the previous pass's
\* code has there (the position recorded only if that bit is 0); where the
\* two bits differ it is the id bit; and the bit written is the bit the
\* candidate code now has at the position.
C27_BranchRule ==
    (phase = "ow_search_rom" /\ srch.step.wrote >= 0) =>
        LET st == srch.step
            nd == loc["new_discrepancy"]
        IN  /\ st.wrote = CodeBit(loc["srom"], st.pos)
            /\ st.id # st.cmp => (st.wrote = st.id /\ nd = st.nd)
            /\ (st.id = 0 /\ st.cmp = 0 /\ st.pos = st.ld) =>
                  (st.wrote = 1 /\ nd = st.nd)
            /\ (st.id = 0 /\ st.cmp = 0 /\ st.pos > st.ld) =>
                  (st.wrote = 0 /\ nd = st.pos)
            /\ (st.id = 0 /\ st.cmp = 0 /\ st.pos < st.ld) =>
                  /\ st.wrote = CodeBit(PrevCode, st.pos)
                  /\ nd = IF st.wrote = 0 THEN st.pos ELSE st.nd

\* a 1 replayed below the last discrepancy
C27_Witness ==
    /\ phase = "ow_search_rom"
    /\ srch.step.id = 0
    /\ srch.step.cmp = 0
    /\ srch.step.pos < srch.step.ld
    /\ srch.step.wrote = 1
    /\ loc["new_discrepancy"] = srch.step.nd

\* the search is at a bus operation: a reset, the search command or a bit
\* position
AtBusOp ==
    AtCall("ow_reset") \/ AtCall("ow_write_byte") \/ At("search_bits")

\* C28: once a bit position has read 1,1 nothing more goes over the bus (no
\* bit written for that position, no later position, no reset, no command),
\* the codes recorded before stay as they were and are what is returned, no
\* code is added, and every code recorded comes from a pass that went
\* through all 64 positions.
C28_EarlyAbort ==
    phase = "ow_search_rom" =>
        /\ srch.aborted = 1 =>
              /\ ~AtBusOp
              /\ srch.step.wrote = -1
              /\ srch.step.id = 1 /\ srch.step.cmp = 1
              /\ loc["roms"] = srch.kept
              /\ loc["device_count"] = Len(srch.kept)
              /\ loc["done"] = 1
              /\ SearchDone => (rv = Len(srch.kept) /\ Found = srch.kept)
        /\ Len(loc["roms"]) <= srch.full
        /\ loc["device_count"] <= srch.full

\* a second pass cut short at bit 9 after a first pass that recorded a code
C28_Witness ==
    /\ SearchDone
    /\ srch.aborted = 1
    /\ srch.step.pos = 9
    /\ srch.passes = 2
    /\ rv = 1
    /\ Len(loc["roms"]) = 1

\* C30: the number of recorded codes stays within 0..max_devices, a code is
\* copied only to an index below max_devices, no pass starts once the count
\* has reached max_devices, and the count returned is the number of passes
\* that went through all 64 bit positions.
C30_SearchBounds ==
    phase = "ow_search_rom" =>
        /\ loc["device_count"] >= 0
        /\ loc["device_count"] <= loc["max_devices"]
        /\ Len(loc["roms"]) <= loc["max_devices"]
        /\ At("memcpy_roms") => loc["device_count"] < loc["max_devices"]
        /\ AtBusOp => loc["device_count"] < loc["max_devices"]
        /\ SearchDone => (rv = srch.full /\ rv = loc["device_count"])

\* the array is full: every pass the cap allows recorded a code
C30_Witness ==
    /\ SearchDone
    /\ rv = MaxPasses
    /\ loc["max_devices"] = MaxPasses
    /\ Len(loc["roms"]) = MaxPasses
    /\ srch.full = MaxPasses

-----------------------------------------------------------------------------
(* SpecCrc: ow_crc8 over a 7-byte payload, and again over the payload      *)
(* followed by that checksum.                                              *)

\* family 02 code of the 1-Wire CRC application note; its checksum is A2
NotePayload == <<2, 28, 184, 1, 0, 0, 0>>

\* the payloads with exactly one bit set
OneBitPayloads ==
    { SetRomBit(ZeroRom, k, 1) : k \in 0..55 }

Payloads ==
    { P \o <<0>> : P \in {NotePayload, SubSeq(BaseCode, 1, 7),
                          <<255, 255, 255, 255, 255, 255, 255>>} }
    \cup OneBitPayloads \cup {ZeroRom}

CrcInit ==
    /\ \E P \in Payloads :
          /\ loc = [LocInit EXCEPT !["data"] = P]
          /\ argv = P
    /\ stack = <<[fn |-> "crc8_selfcheck", k |-> crc8_selfcheck]>>
    /\ phase = "crc8_selfcheck"
    /\ rv = 0
    /\ pinMode = NoPins
    /\ pinPull = NoPins
    /\ pinLevel = NoPins
    /\ clock = 0
    /\ events = <<>>
    /\ env = [root |-> TRUE, init_ok |-> TRUE]
    /\ dev = NoDev
    /\ exit_code = -1
    /\ hist = NoHist
    /\ srch = NoSearch

CrcNext ==
    \/ FnCall
    \/ DoSet
    \/ DoSetV
    \/ DoIf
    \/ DoWhile
    \/ DoReturn
    \/ DoReturnV

SpecCrc == CrcInit /\ [][CrcNext]_vars

\* The reference: a shift register of 8 bits, least significant first, fed
\* the data bits least significant first; a feedback bit of 1 flips the taps
\* of the reflected polynomial 0x8C (bits 7, 3 and 2).
RefShift(reg, b) ==
    LET fb == (reg[1] + b) % 2
        sh == [n \in 1..8 |-> IF n < 8 THEN reg[n + 1] ELSE 0]
    IN  [n \in 1..8 |-> IF n \in {8, 4, 3} THEN (sh[n] + fb) % 2 ELSE sh[n]]

\* one data byte through the register
RefByte(reg, byte) ==
    LET r1 == RefShift(reg, BitOf(byte, 0))
        r2 == RefShift(r1, BitOf(byte, 1))
        r3 == RefShift(r2, BitOf(byte, 2))
        r4 == RefShift(r3, BitOf(byte, 3))
        r5 == RefShift(r4, BitOf(byte, 4))
        r6 == RefShift(r5, BitOf(byte, 5))
        r7 == RefShift(r6, BitOf(byte, 6))
    IN  RefShift(r7, BitOf(byte, 7))

RECURSIVE RefCrcBytes(_, _)
RefCrcBytes(bytes, len) ==
    IF len = 0 THEN <<0, 0, 0, 0, 0, 0, 0, 0>>
    ELSE RefByte(RefCrcBytes(bytes, len - 1), bytes[len])

RefCrc(bytes, len) ==
    LET reg == RefCrcBytes(bytes, len)
    IN  reg[1] + 2 * reg[2] + 4 * reg[3] + 8 * reg[4] + 16 * reg[5]
        + 32 * reg[6] + 64 * reg[7] + 128 * reg[8]

CrcDone == WireDone("crc8_selfcheck")

\* C12: for a payload P, ow_crc8 over P followed by ow_crc8(P) is 0, the
\* checksum of the first 7 bytes of that code is its 8th byte, and both
\* checksums are those of the bit-serial reference.
C12_CrcSelfConsistent ==
    CrcDone =>
        /\ SubSeq(loc["data"], 1, 7) = SubSeq(argv, 1, 7)
        /\ loc["data"][8] = loc["crc7"]
        /\ loc["crc7"] \in 0..255
        /\ loc["crc7"] = RefCrc(argv, 7)
        /\ loc["crc8"] = RefCrc(loc["data"], 8)
        /\ loc["crc8"] = 0

C12_Witness ==
    /\ CrcDone
    /\ SubSeq(argv, 1, 7) = NotePayload
    /\ loc["crc7"] = 162
    /\ loc["crc8"] = 0

-----------------------------------------------------------------------------
(* SpecTemp: the temp and status actions against a device whose            *)
(* temperature, remaining count and counts per degree are the inputs.      *)

TempRegs == {0, 1, 23, 125, 127, 128, 201, 246, 255}
CounterRegs == {0, 1, 3, 15, 16, 17, 20, 128, 255}
SlopeRegs == {0, 1, 2, 16, 17, 255}

TempActions == {"action_read_temp", "action_status"}

TempInit ==
    /\ \E a \in TempActions, t \in TempRegs, r \in CounterRegs, c \in SlopeRegs :
          /\ stack = <<[fn |-> a, k |-> Prog(a)]>>
          /\ phase = a
          /\ dev = [NoDev EXCEPT !.status = 128, !.th = 30, !.tl = 20,
                                 !.temp = t, !.counter = r, !.slope = c]
          /\ argv = <<t, r, c>>
    /\ loc = LocInit
    /\ rv = 0
    /\ pinMode = IdleMode(DEFAULT_GPIO_PIN)
    /\ pinPull = IdlePull(DEFAULT_GPIO_PIN)
    /\ pinLevel = NoPins
    /\ clock = 0
    /\ events = <<>>
    /\ env = [root |-> TRUE, init_ok |-> TRUE]
    /\ exit_code = -1
    /\ hist = NoHist
    /\ srch = NoSearch

TempNext ==
    \/ FnCall
    \/ BusReset
    \/ BusWriteByte
    \/ BusReadByte
    \/ DoUsleep
    \/ DoSet
    \/ DoSetV
    \/ DoSetP
    \/ DoIf
    \/ DoReturn

SpecTemp == TempInit /\ [][TempNext]_vars

\* the device's registers as the numbers they stand for
DevT == IF dev.temp >= 128 THEN dev.temp - 256 ELSE dev.temp
DevR == dev.counter
DevC == dev.slope

\* the action has computed millideg and is about to return success
TempComputed ==
    /\ phase \in TempActions
    /\ Running
    /\ Top.fn = phase
    /\ Ins = Return(0)

\* q is n / d rounded toward zero (d > 0)
IsTruncQuotient(q, n, d) ==
    LET r == n - q * d
    IN  /\ -d < r /\ r < d
        /\ n >= 0 => r >= 0
        /\ n <= 0 => r <= 0

\* C13: with counts per degree C >= 1 the millidegrees are
\* T * 1000 - 250 + ((C - R) * 1000) / C, the quotient rounded toward zero
\* also when R > C; T = 23, R = 3, C = 16 gives 23562.
C13_Millidegrees ==
    (TempComputed /\ DevC >= 1) =>
        /\ loc["temp"] = DevT
        /\ loc["count_remain"] = DevR
        /\ loc["cpc"] = DevC
        /\ IsTruncQuotient(loc["millideg"] - (DevT * 1000 - 250),
                           (DevC - DevR) * 1000, DevC)
        /\ (DevT = 23 /\ DevR = 3 /\ DevC = 16) => loc["millideg"] = 23562

C13_Witness ==
    /\ TempComputed
    /\ DevT = -1
    /\ DevR = 20
    /\ DevC = 17
    /\ loc["millideg"] = -1426

\* C14: with counts per degree 0 the derivation uses 1 both in C - R and as
\* the divisor, the divisor is never 0 when the division is made, and the
\* action fails only where a reset found no presence.
C14_DivisionGuard ==
    /\ (phase \in TempActions /\ Running
          /\ Ins = SetV("millideg", "millideg")) => loc["cpc"] >= 1
    /\ (TempComputed /\ DevC = 0) =>
          /\ loc["cpc"] = 1
          /\ loc["millideg"] = DevT * 1000 - 250 + (1 - DevR) * 1000
    /\ (phase \in TempActions /\ Running /\ Top.fn = phase
          /\ Ins = Return(-1)) => hist.last = 1

C14_Witness ==
    /\ TempComputed
    /\ DevC = 0
    /\ DevR = 3
    /\ DevT = 23
    /\ loc["millideg"] = 20750

-----------------------------------------------------------------------------
(* SpecProbe: action_probe against a device holding any status byte, with  *)
(* and without --quick and --read-tout.                                    *)

ProbeInit ==
    /\ \E st \in 0..255, q \in {0, 1}, t \in {0, 1} :
          /\ dev = [NoDev EXCEPT !.status = st, !.th = 30, !.tl = 20]
          /\ loc = [LocInit EXCEPT !["quiet"] = q, !["read_tout_flag"] = t]
          /\ argv = <<st, q, t>>
    /\ stack = <<[fn |-> "action_probe", k |-> action_probe]>>
    /\ phase = "action_probe"
    /\ rv = 0
    /\ pinMode = IdleMode(DEFAULT_GPIO_PIN)
    /\ pinPull = IdlePull(DEFAULT_GPIO_PIN)
    /\ pinLevel = NoPins
    /\ clock = 0
    /\ events = <<>>
    /\ env = [root |-> TRUE, init_ok |-> TRUE]
    /\ exit_code = -1
    /\ hist = NoHist
    /\ srch = NoSearch

ProbeNext ==
    \/ FnCall
    \/ BusReset
    \/ BusWriteByte
    \/ BusReadByte
    \/ GpioSetMode
    \/ GpioSetPullUpDown
    \/ GpioRead
    \/ DoSet
    \/ DoSetV
    \/ DoSetP
    \/ DoIf
    \/ DoReturn
    \/ DoReturnV

SpecProbe == ProbeInit /\ [][ProbeNext]_vars

\* action_probe has read everything and prints
ProbeReports ==
    /\ phase = "action_probe"
    /\ Len(stack) = 1
    /\ At("return")
    /\ Ins.a = 0

\* C23: what action_probe reports for the status byte s the device holds is
\* done = bit 7, thf = bit 6, tlf = bit 5, nvb = bit 4, oneshot = bit 0 of s.
C23_StatusDecode ==
    ProbeReports =>
        LET p == ProbePrinted(loc)
        IN  /\ p.status = dev.status
            /\ p.done = BitOf(dev.status, 7)
            /\ p.thf = BitOf(dev.status, 6)
            /\ p.tlf = BitOf(dev.status, 5)
            /\ p.nvb = BitOf(dev.status, 4)
            /\ p.oneshot = BitOf(dev.status, 0)

\* 0xC1: done=1 thf=1 tlf=0 nvb=0 oneshot=1
C23_Witness ==
    /\ ProbeReports
    /\ dev.status = 193
    /\ loc["quiet"] = 1
    /\ ProbePrinted(loc) =
          [status |-> 193, done |-> 1, thf |-> 1, tlf |-> 0, nvb |-> 0,
           oneshot |-> 1]

-----------------------------------------------------------------------------
(* SpecLoop: main() of ds1821_read.c from the installation of the SIGINT   *)
(* handler on, with the handler running at any moment.  phase is the       *)
(* position of main(); srch keeps what has happened: sig, the handler has  *)
(* run; at, where main() was when it first did; iter and done, iterations  *)
(* of the do-while loop started and finished; late, iterations started     *)
(* after the handler had run.                                              *)

MaxIterations == 3

ReadLoc(m) == [keep_running |-> 1, loop_mode |-> m, fd |-> -1]

ReadHist == [sig |-> 0, at |-> "none", iter |-> 0, done |-> 0, late |-> 0]

LoopInit ==
    /\ \E m \in {0, 1} : loc = ReadLoc(m) /\ argv = <<m>>
    /\ phase = "find"
    /\ srch = ReadHist
    /\ stack = <<>>
    /\ rv = 0
    /\ pinMode = NoPins
    /\ pinPull = NoPins
    /\ pinLevel = NoPins
    /\ clock = 0
    /\ events = <<>>
    /\ env = [root |-> TRUE, init_ok |-> TRUE]
    /\ dev = NoDev
    /\ exit_code = -1
    /\ hist = NoHist

LoopFixed ==
    UNCHANGED <<stack, rv, pinMode, pinPull, pinLevel, clock, events, argv,
                env, dev, hist>>

\* static void sigint_handler(int sig) { keep_running = 0; }
sigint_handler ==
    /\ phase # "exit"
    /\ loc' = [loc EXCEPT !["keep_running"] = 0]
    /\ srch' = [srch EXCEPT !.sig = 1,
                            !.at = IF srch.sig = 0 THEN phase ELSE @]
    /\ UNCHANGED <<phase, exit_code>>
    /\ LoopFixed

\* the device id is given, or find_ds1821() finds one or not
ReadMainFind ==
    /\ phase = "find"
    /\ \E found \in {TRUE, FALSE} :
          IF found THEN phase' = "do" /\ UNCHANGED exit_code
          ELSE phase' = "exit" /\ exit_code' = 1
    /\ UNCHANGED <<loc, srch>>
    /\ LoopFixed

\* do { ... read_hw_temperature(): w1_open_rw()
ReadIterStart ==
    /\ phase = "do"
    /\ srch' = [srch EXCEPT !.iter = @ + 1,
                            !.late = IF srch.sig = 1 THEN @ + 1 ELSE @]
    /\ \E fd \in {-1, 3} :
          /\ loc' = [loc EXCEPT !["fd"] = fd]
          /\ phase' = IF fd < 0 THEN "failed" ELSE "convert"
    /\ UNCHANGED exit_code
    /\ LoopFixed

\* w1_command(fd, DS1821_CMD_START_CONVERT, NULL, 0)
ReadHwConvert ==
    /\ phase = "convert"
    /\ \E ok \in {TRUE, FALSE} : phase' = IF ok THEN "wait" ELSE "failed"
    /\ UNCHANGED <<loc, srch, exit_code>>
    /\ LoopFixed

\* usleep(1000000): it ends when the second is over, or when a signal arrives
ReadHwWait ==
    /\ phase = "wait"
    /\ phase' = "read_temp"
    /\ UNCHANGED <<loc, srch, exit_code>>
    /\ LoopFixed

\* lseek, write of the command, usleep(10000), read of one byte, three times
ReadHwByte ==
    /\ phase \in {"read_temp", "read_counter", "read_slope"}
    /\ \E ok \in {TRUE, FALSE} :
          phase' = IF ~ok THEN "failed"
                   ELSE IF phase = "read_temp" THEN "read_counter"
                   ELSE IF phase = "read_counter" THEN "read_slope"
                   ELSE "print"
    /\ UNCHANGED <<loc, srch, exit_code>>
    /\ LoopFixed

\* read_hw_temperature() returned 0: print_temp(temp, millideg)
ReadIterPrint ==
    /\ phase = "print"
    /\ phase' = "sleep?"
    /\ srch' = [srch EXCEPT !.done = @ + 1]
    /\ UNCHANGED <<loc, exit_code>>
    /\ LoopFixed

\* it did not: "Read failed", and return 1 outside loop mode
ReadIterFailed ==
    /\ phase = "failed"
    /\ srch' = [srch EXCEPT !.done = @ + 1]
    /\ IF loc["loop_mode"] = 0
       THEN phase' = "exit" /\ exit_code' = 1
       ELSE phase' = "sleep?" /\ UNCHANGED exit_code
    /\ UNCHANGED loc
    /\ LoopFixed

\* if (loop_mode && keep_running)
ReadLoopSleepCheck ==
    /\ phase = "sleep?"
    /\ phase' = IF loc["loop_mode"] # 0 /\ loc["keep_running"] # 0
                THEN "sleep" ELSE "while?"
    /\ UNCHANGED <<loc, srch, exit_code>>
    /\ LoopFixed

\* sleep(loop_sec): it ends when the time is over, or when a signal arrives
ReadLoopSleep ==
    /\ phase = "sleep"
    /\ phase' = "while?"
    /\ UNCHANGED <<loc, srch, exit_code>>
    /\ LoopFixed

\* ... with } while (loop_mode);
ReadLoopWhile_ignoring_flag ==
    /\ phase = "while?"
    /\ IF loc["loop_mode"] # 0
       THEN srch.iter < MaxIterations /\ phase' = "do"
       ELSE phase' = "after"
    /\ UNCHANGED <<loc, srch, exit_code>>
    /\ LoopFixed

\* } while (loop_mode && keep_running);
ReadLoopWhile ==
    /\ phase = "while?"
    /\ IF loc["loop_mode"] # 0 /\ loc["keep_running"] # 0
       THEN srch.iter < MaxIterations /\ phase' = "do"
       ELSE phase' = "after"
    /\ UNCHANGED <<loc, srch, exit_code>>
    /\ LoopFixed

\* if (!keep_running) printf("\nInterrupted.\n"); return 0;
ReadMainReturn ==
    /\ phase = "after"
    /\ phase' = "exit"
    /\ exit_code' = 0
    /\ UNCHANGED <<loc, srch>>
    /\ LoopFixed

\* the steps of main()
LoopSteps ==
    \/ ReadMainFind
    \/ ReadIterStart
    \/ ReadHwConvert
    \/ ReadHwWait
    \/ ReadHwByte
    \/ ReadIterPrint
    \/ ReadIterFailed
    \/ ReadLoopSleepCheck
    \/ ReadLoopSleep
    \/ ReadLoopWhile
    \/ ReadMainReturn

LoopNext == LoopSteps \/ sigint_handler

\* main() keeps running; whether and when a signal arrives is up to the user
SpecLoop == LoopInit /\ [][LoopNext]_vars /\ WF_vars(LoopSteps)

\* C25 as stated: an iteration that has started finishes, and none starts
\* once the handler has run.
C25_NoIterationAfterSignal ==
    /\ \A n \in 1..MaxIterations : (srch.iter = n) ~> (srch.done = n)
    /\ [](srch.late = 0)

\* C25: an iteration that has started finishes, whenever the handler runs.
\* After the handler has run at most one more iteration starts, and it does
\* only if the handler ran before the loop was entered or between the
\* evaluation of the loop condition and the start of the next iteration;
\* a handler that ran anywhere from the start of an iteration up to the
\* evaluation of the loop condition is followed by no iteration.
C25_CoarseCancellation ==
    /\ \A n \in 1..MaxIterations : (srch.iter = n) ~> (srch.done = n)
    /\ [](/\ srch.late <= 1
          /\ srch.late = 1 => srch.at \in {"find", "do"}
          /\ srch.done <= srch.iter
          /\ srch.iter <= srch.done + 1)

\* the handler ran in the middle of the second iteration: that iteration
\* finished and the loop ended
C25_Witness ==
    /\ phase = "exit"
    /\ srch.sig = 1
    /\ srch.at = "wait"
    /\ srch.iter = 2
    /\ srch.done = 2
    /\ srch.late = 0
    /\ exit_code = 0

-----------------------------------------------------------------------------
(* SpecScan: action_scan against a bus whose every reset finds presence or *)
(* not, whose identity read returns a valid, a garbled or an all-zero      *)
(* code, and whose discovery returns up to MaxScanCodes codes, each of     *)
(* them valid, with a wrong checksum, of family 0, or all zero.            *)

MaxScanCodes == 3

GarbledCode == <<34, 1, 2, 3, 4, 5, 6, 22>>
FamilyZeroCode == <<0, 1, 2, 3, 4, 5, 6, 128>>

ScanCodes == {BaseCode, GarbledCode, FamilyZeroCode, ZeroRom}

ScanInit ==
    /\ \E code \in {BaseCode, GarbledCode, ZeroRom} :
          /\ dev = [NoDev EXCEPT !.status = 193, !.th = 30, !.tl = 20,
                                 !.rom = code]
          /\ argv = code
    /\ stack = <<[fn |-> "action_scan", k |-> action_scan]>>
    /\ phase = "action_scan"
    /\ loc = LocInit
    /\ rv = 0
    /\ pinMode = IdleMode(DEFAULT_GPIO_PIN)
    /\ pinPull = IdlePull(DEFAULT_GPIO_PIN)
    /\ pinLevel = NoPins
    /\ clock = 0
    /\ events = <<>>
    /\ env = [root |-> TRUE, init_ok |-> TRUE]
    /\ exit_code = -1
    /\ hist = NoHist
    /\ srch = NoSearch

\* The 64 bit positions of one search pass, with the code they leave in
\* rom[]: whatever the devices and phantoms on the bus make of it.
ScanSearchBits ==
    /\ At("search_bits")
    /\ \E d \in {0, 1}, code \in ScanCodes,
          nd \in (IF loc["device_count"] + 1 < MaxScanCodes
                  THEN {-1, 7} ELSE {-1}) :
          /\ loc' = [loc EXCEPT !["done"] = d, !["new_discrepancy"] = nd,
                                !["srom"] = code]
          /\ Log("search_bits", loc["gpio_pin"], d)
    /\ hist' = HistOp(hist)
    /\ AfterWire
    /\ Goto(Rest)
    /\ UNCHANGED <<rv, clock, phase, argv, env, dev, exit_code, srch>>

ScanNext ==
    \/ FnCall
    \/ BusReset
    \/ BusWriteByte
    \/ BusReadByte
    \/ ScanSearchBits
    \/ MemcpyRoms
    \/ Crc8Call
    \/ DoSet
    \/ DoSetV
    \/ DoSetP
    \/ DoIf
    \/ DoWhile
    \/ DoBreak
    \/ DoReturn
    \/ DoReturnV

SpecScan == ScanInit /\ [][ScanNext]_vars

ScanDone == phase = "action_scan" /\ stack = <<>>

\* a code whose checksum byte is not the checksum of its first 7 bytes, or
\* whose family byte is 0
IsPhantom(code) == RefCrc(code, 7) # code[8] \/ code[1] = 0

\* C21: action_scan returns -1 when its first reset finds no presence, and 0
\* in every other case, whatever the identity read, the discovery and the
\* status and threshold reads come to.
C21_ScanNeverFailsAfterPresence ==
    ScanDone => (rv = IF hist.first = 1 THEN -1 ELSE 0)

\* garbled identity, phantom codes found, a later reset without presence:
\* success
C21_Witness ==
    /\ ScanDone
    /\ rv = 0
    /\ loc["single"] = 0
    /\ loc["rom"] = GarbledCode
    /\ loc["phantom"] = 2
    /\ loc["valid"] = 0
    /\ hist.failed = 1

\* nothing found at all: success
C21_WitnessNoneFound ==
    /\ ScanDone
    /\ rv = 0
    /\ loc["count"] = 0

\* C22: every code discovery returned is counted once, as valid or as
\* phantom: while the codes are gone through valid + phantom is the number
\* gone through, at the end the number found, and phantom is the number of
\* codes with a checksum mismatch or family byte 0.
C22_ScanClassification ==
    (phase = "action_scan" /\ Len(stack) <= 1 /\ loc["count"] > 0) =>
        /\ loc["count"] = Len(loc["roms"])
        /\ loc["valid"] + loc["phantom"] <= loc["count"]
        /\ loc["fi"] <= loc["count"]
        /\ At("while") => loc["valid"] + loc["phantom"] = loc["fi"]
        /\ At("while") =>
              loc["phantom"] = Cardinality({n \in 1..loc["fi"] :
                                              IsPhantom(loc["roms"][n])})
        /\ ScanDone =>
              /\ loc["valid"] + loc["phantom"] = loc["count"]
              /\ loc["phantom"] = Cardinality({n \in 1..loc["count"] :
                                                 IsPhantom(loc["roms"][n])})
              /\ loc["valid"] = Cardinality({n \in 1..loc["count"] :
                                               ~IsPhantom(loc["roms"][n])})

\* one valid code, the all-zero code and a code of family 0 with a matching
\* checksum: 1 valid, 2 phantom
C22_Witness ==
    /\ ScanDone
    /\ loc["roms"] = <<BaseCode, ZeroRom, FamilyZeroCode>>
    /\ RefCrc(ZeroRom, 7) = ZeroRom[8]
    /\ RefCrc(FamilyZeroCode, 7) = FamilyZeroCode[8]
    /\ loc["valid"] = 1
    /\ loc["phantom"] = 2

====
